---- MODULE Spec2Model ----
(***************************************************************************)
(* Stack-discipline bridge of hlua (src/hlua/hlua/src/lib.rs): the Lua     *)
(* context, the PushGuard RAII token, the Nil push/read and the global     *)
(* get/set operations, modelled over one shared operand stack.             *)
(***************************************************************************)
EXTENDS Integers, Sequences, FiniteSets, TLC

\* ------------------------------------------------------------------------
\* Bounds of the model
\* ------------------------------------------------------------------------
MaxStack == 3
MaxGuards == 2
MaxDepth == 1
MaxOwed == 1
\* Interpreter states ever allocated and Lua values ever built.
MaxStates == 2
MaxLuas == 3

\* ------------------------------------------------------------------------
\* Lua values: a type tag, an integer payload and, for strings, the bytes
\* ------------------------------------------------------------------------
Val(t, v) == [t |-> t, v |-> v, s |-> <<>>]
Str(bytes) == [t |-> "string", v |-> 0, s |-> bytes]
NilV == Val("nil", 0)
Tab(id) == Val("table", id)
GlobalsTab == Tab(0)

\* A cdata value: its payload and its ctype, "struct tt_uuid" or another.
CtUuid == <<117>>
CtOther == <<111>>
CData(ctype, v) == [t |-> "cdata", v |-> v, s |-> ctype]

\* Names of globals, as byte strings: "a" and "a\0b".
NameA == <<97>>
NameNul == <<97, 0, 98>>
Names == {NameA, NameNul}

\* "assert", the global the base library defines, and the keys of the
\* globals table.
NameAssert == <<97, 115, 115, 101, 114, 116>>
GlobalKeys == Names \cup {NameAssert}

\* Host (Rust) values handed to set / expected from get.
Host(ty, v) == [ty |-> ty, v |-> v, s |-> <<>>]
HostStr(bytes) == [ty |-> "String", v |-> 0, s |-> bytes]
HostVals == {Host("i32", 5), Host("i32", 12), Host("bool", 1),
             HostStr(NameA), Host("Nil", 0)}
ReadTypes == {"i32", "bool", "String", "Nil", "LuaTable"}
Scalars == {hv \in HostVals : hv.ty # "Nil"}

\* The requested types the guard-discipline specifications draw from.
FewTypes == {"i32", "bool", "LuaTable"}

\* Push of a scalar / text value: the Lua value it leaves in its one slot.
Encode(hv) ==
    CASE hv.ty = "i32" -> Val("number", hv.v)
      [] hv.ty = "bool" -> Val("boolean", hv.v)
      [] hv.ty = "String" -> Str(hv.s)
      [] hv.ty = "Function" -> Val("function", hv.v)
      [] OTHER -> NilV

\* LuaRead of one slot as the requested host type.
Decodes(ty, lv) ==
    CASE ty = "i32" -> lv.t = "number"
      [] ty = "bool" -> lv.t = "boolean"
      [] ty = "String" -> lv.t = "string"
      [] ty = "Nil" -> lv.t = "nil"
      [] ty = "LuaTable" -> lv.t = "table"
      [] OTHER -> FALSE

Decode(ty, lv) == [ty |-> ty, v |-> lv.v, s |-> lv.s]

\* CString::new fails on an interior NUL byte.
CStringNewOk(name) == \A i \in 1..Len(name) : name[i] # 0

VARIABLES stack, globals, guards, frames, owed, lastset, pops, ret, life,
          absidx, ctid

vars == <<stack, globals, guards, frames, owed, lastset, pops, ret, life,
          absidx, ctid>>

\* ------------------------------------------------------------------------
\* The interpreter's stack primitives, on a machine m = [st, log]; log is the
\* sequence of lua_pop arguments issued so far by the running operation.
\* ------------------------------------------------------------------------
Mach(st, log) == [st |-> st, log |-> log]

lua_push(m, lv) == Mach(Append(m.st, lv), m.log)

lua_pop(m, n) ==
    Mach(SubSeq(m.st, 1, Len(m.st) - n), Append(m.log, n))

Depth == Len(frames)
Bot == frames[Len(frames)].bot

\* Absolute position of a nonzero index in the current frame; 0 if invalid.
AbsPos(st, idx) ==
    LET p == IF idx < 0 THEN Len(st) + idx + 1 ELSE Bot + idx
    IN IF p > Bot /\ p <= Len(st) THEN p ELSE 0

lua_type(st, idx) == IF AbsPos(st, idx) = 0 THEN "none" ELSE st[AbsPos(st, idx)].t

lua_isnil(st, idx) == lua_type(st, idx) = "nil"

\* lua_gettop: the height of the current frame.
lua_gettop(st) == Len(st) - Bot

\* ------------------------------------------------------------------------
\* PushGuard.  guards lists the live guards in creation order; a guard is
\* referred to by its position in that list.
\* ------------------------------------------------------------------------
\* A handle is a borrow (ref) of, or the value (~ref) of, the context (to = 0)
\* or a guard (to = its position).
Hnd(ref, to) == [ref |-> ref, to |-> to]
LuaRef == Hnd(TRUE, 0)

Live == 1..Len(guards)
Held(g) == \E x \in Live : guards[x].h = Hnd(FALSE, g)
Borrowed(g) == \E x \in Live : guards[x].h = Hnd(TRUE, g)
Usable(g) == g \in Live /\ ~Held(g) /\ guards[g].depth = Depth
Movable(g) == Usable(g) /\ ~Borrowed(g)

Handles ==
    {LuaRef} \cup {Hnd(TRUE, g) : g \in {x \in Live : Usable(x)}}
             \cup {Hnd(FALSE, g) : g \in {x \in Live : Movable(x)}}

\* A constructor that records one slot more than it was given.
PushGuardNewOff(h, n, base, tbl) ==
    [size |-> n + 1, h |-> h, base |-> base, pushed |-> n, depth |-> Depth,
     tbl |-> tbl]

\* PushGuard::new: bookkeeping only.  base, pushed, depth and tbl record where
\* and how the guard was created.
PushGuardNew(h, n, base, tbl) ==
    [size |-> n, h |-> h, base |-> base, pushed |-> n, depth |-> Depth,
     tbl |-> tbl]

\* A size() that ignores the recorded count.
PushGuardSizeOne(gr) == 1

PushGuardSize(gr) == gr.size

\* The guard and the guards it holds by value, outermost first.
RECURSIVE Chain(_, _)
Chain(gs, g) ==
    IF gs[g].h.to # 0 /\ ~gs[g].h.ref
    THEN <<g>> \o Chain(gs, gs[g].h.to)
    ELSE <<g>>

SeqSet(s) == {s[i] : i \in 1..Len(s)}

RECURSIVE SeqSum(_)
SeqSum(s) == IF s = <<>> THEN 0 ELSE Head(s) + SeqSum(Tail(s))

\* Destructors that never pop, that pop also when size is 0, and that pop
\* one slot too many.
PushGuardDropNever(m, size) == m
PushGuardDropAlways(m, size) == lua_pop(m, size)
PushGuardDropMore(m, size) == lua_pop(m, size + 1)

\* impl Drop for PushGuard: one lua_pop(size) unless size is 0.
PushGuardDrop(m, size) == IF size # 0 THEN lua_pop(m, size) ELSE m

\* Drop glue: the guard's destructor, then that of the handle it owns.
RECURSIVE DropAll(_, _, _)
DropAll(m, gs, ids) ==
    IF ids = <<>> THEN m
    ELSE DropAll(PushGuardDrop(m, gs[Head(ids)].size), gs, Tail(ids))

\* The list of guards once those at the positions S are gone.
NewIdx(S, i) == Cardinality({j \in 1..i : j \notin S})
RemoveGuards(gs, S) ==
    LET kept == SelectSeq([i \in 1..Len(gs) |-> i], LAMBDA i : i \notin S)
    IN [k \in 1..Len(kept) |->
          LET g == gs[kept[k]]
          IN [g EXCEPT !.h = Hnd(g.h.ref,
                                 IF g.h.to = 0 THEN 0 ELSE NewIdx(S, g.h.to))]]

\* What the last operation was and what it returned: the outcome, the host
\* value, the count and, for a guard operation, the handle of its guard.
NoHost == Host("", 0)

Ret(op, kind, val, n) ==
    [op |-> op, kind |-> kind, val |-> val, n |-> n, h |-> LuaRef]

RetG(op, kind, n, h) ==
    [op |-> op, kind |-> kind, val |-> NoHost, n |-> n, h |-> h]

M0 == Mach(stack, <<>>)

Init ==
    /\ stack = <<Val("number", 12)>>
    /\ globals = [k \in GlobalKeys |-> NilV]
    /\ guards = <<>>
    /\ frames = <<[bot |-> 0, entry |-> Len(stack), owed |-> 0]>>
    /\ owed = 0
    /\ lastset = [k \in Names |-> NoHost]
    /\ pops = <<>>
    /\ ret = Ret("init", "unit", NoHost, 0)
    /\ life = [states |-> <<[closes |-> 0]>>, luas |-> <<>>, atpanic |-> {}]
    /\ absidx = [v |-> 0, of |-> 0, top |-> 0]
    /\ ctid = [CTID_UUID |-> <<>>, asked |-> FALSE, returned |-> <<>>]

CanGuard == Len(guards) < MaxGuards /\ Len(stack) < MaxStack

\* ------------------------------------------------------------------------
\* impl Push for Nil / impl LuaRead for Nil
\* ------------------------------------------------------------------------
NilPushToLua(m) == lua_push(m, NilV)

PushNil(h) ==
    /\ h \in Handles
    /\ CanGuard
    /\ LET m == NilPushToLua(M0)
       IN /\ stack' = m.st
          /\ pops' = m.log
    /\ guards' = Append(guards, PushGuardNew(h, 1, Len(stack), FALSE))
    /\ ret' = RetG("push_nil", "Ok", 1, h)
    /\ UNCHANGED <<globals, frames, owed, lastset, life, absidx, ctid>>

NilLuaReadAtPosition(st, idx) == lua_isnil(st, idx)

\* A successful read consumes the handle (a guard given by value is dropped);
\* a failed read returns it.
ReadNil(h, idx) ==
    /\ h \in Handles
    /\ idx \in {-2, -1, 1}
    /\ IF NilLuaReadAtPosition(stack, idx)
       THEN IF ~h.ref
            THEN LET ids == Chain(guards, h.to)
                     m == DropAll(M0, guards, ids)
                 IN /\ stack' = m.st
                    /\ pops' = m.log
                    /\ guards' = RemoveGuards(guards, SeqSet(ids))
                    /\ ret' = Ret("read_nil", "Ok", Host("Nil", 0), 1)
            ELSE /\ pops' = <<>>
                 /\ ret' = Ret("read_nil", "Ok", Host("Nil", 0), 0)
                 /\ UNCHANGED <<stack, guards>>
       ELSE /\ pops' = <<>>
            /\ ret' = Ret("read_nil", "Err", NoHost, 0)
            /\ UNCHANGED <<stack, guards>>
    /\ UNCHANGED <<globals, frames, owed, lastset, life, absidx, ctid>>

\* ------------------------------------------------------------------------
\* PushGuard operations
\* ------------------------------------------------------------------------
\* PushGuard::new over n slots the caller already owns on the stack.
NewGuard(h, n) ==
    /\ h \in Handles
    /\ n \in 0..owed
    /\ Len(guards) < MaxGuards
    /\ guards' = Append(guards, PushGuardNew(h, n, Len(stack) - n, FALSE))
    /\ ret' = RetG("new", "Ok", n, h)
    /\ owed' = owed - n
    /\ pops' = <<>>
    /\ UNCHANGED <<stack, globals, frames, lastset, life, absidx, ctid>>

Size(g) ==
    /\ Usable(g)
    /\ ret' = Ret("size", "Ok", NoHost, PushGuardSize(guards[g]))
    /\ pops' = <<>>
    /\ UNCHANGED <<stack, globals, guards, frames, owed, lastset, life, absidx, ctid>>

\* A forget that leaves the guard armed.
ForgetInternalArmed(gs, g) == gs

\* forget_internal(mut self): size is zeroed, then self goes out of scope.
ForgetInternal(gs, g) == [gs EXCEPT ![g].size = 0]

Forget(g) ==
    /\ Movable(g)
    /\ owed + guards[g].size <= MaxOwed
    /\ LET ids == Chain(guards, g)
           m == DropAll(M0, ForgetInternal(guards, g), ids)
       IN /\ stack' = m.st
          /\ pops' = m.log
          /\ guards' = RemoveGuards(guards, SeqSet(ids))
    /\ ret' = RetG("forget", "Ok", guards[g].size, guards[g].h)
    /\ owed' = owed + guards[g].size
    /\ UNCHANGED <<globals, frames, lastset, life, absidx, ctid>>

\* An into_inner that leaves the slots on the stack.
PushGuardIntoInnerLeak(m, size) == m

\* into_inner: pops if armed, mem::forget(self), hands the handle back.
PushGuardIntoInner(m, size) == IF size # 0 THEN lua_pop(m, size) ELSE m

IntoInner(g) ==
    /\ Movable(g)
    /\ LET m == PushGuardIntoInner(M0, guards[g].size)
       IN /\ stack' = m.st
          /\ pops' = m.log
    /\ guards' = RemoveGuards(guards, {g})
    /\ ret' = RetG("into_inner", "Ok", guards[g].size, guards[g].h)
    /\ UNCHANGED <<globals, frames, owed, lastset, life, absidx, ctid>>

\* The guard goes out of scope.  ret.kind notes a drop that directly follows
\* the forget of a guard created over a borrow of g.
DropGuard(g) ==
    /\ Movable(g)
    /\ LET ids == Chain(guards, g)
           m == DropAll(M0, guards, ids)
       IN /\ stack' = m.st
          /\ pops' = m.log
          /\ guards' = RemoveGuards(guards, SeqSet(ids))
    /\ ret' = RetG("drop",
                    IF ret.op = "forget" /\ ret.h = Hnd(TRUE, g)
                    THEN "AfterForget" ELSE "Ok",
                    guards[g].size, guards[g].h)
    /\ UNCHANGED <<globals, frames, owed, lastset, life, absidx, ctid>>

\* The caller removes slots whose popping a forget transferred to it.
CallerPop(n) ==
    /\ n \in 1..owed
    /\ LET m == lua_pop(M0, n)
       IN /\ stack' = m.st
          /\ pops' = m.log
    /\ owed' = owed - n
    /\ ret' = Ret("caller_pop", "Ok", NoHost, n)
    /\ UNCHANGED <<globals, guards, frames, lastset, life, absidx, ctid>>

\* ------------------------------------------------------------------------
\* Lua::get / Lua::set / Lua::checked_set / empty_array / globals_table
\* ------------------------------------------------------------------------
\* A lua_getglobal that finds no global.
lua_getglobalAbsent(m, gl, name) == lua_push(m, NilV)

lua_getglobal(m, gl, name) == lua_push(m, gl[name])

\* lua_settable(L, idx): t[k] = v with v on top and k below it; pops both.
lua_settable(m, gl, idx) ==
    LET n == Len(m.st)
        t == m.st[AbsPos(m.st, idx)]
        k == m.st[n - 1]
        v == m.st[n]
    IN [m |-> Mach(SubSeq(m.st, 1, n - 2), m.log),
        gl |-> IF t = GlobalsTab /\ k.t = "string" /\ k.s \in DOMAIN gl
               THEN [gl EXCEPT ![k.s] = v] ELSE gl]

\* Lua::get after the name was converted: the slot pushed by lua_getglobal
\* goes under a guard of 1, which is dropped on the nil path, on a failed
\* read and by a read that copies the value out; a table read keeps it.
GetRun(m, gl, name, ty) ==
    LET m1 == lua_getglobal(m, gl, name)
        top == m1.st[Len(m1.st)]
        some == ~lua_isnil(m1.st, -1) /\ Decodes(ty, top)
        keep == some /\ ty = "LuaTable"
    IN [m |-> IF keep THEN m1 ELSE PushGuardDrop(m1, 1),
        some |-> some, keep |-> keep,
        val |-> IF some THEN Decode(ty, top) ELSE NoHost]

Get(name, ty) ==
    /\ name \in Names
    /\ ty \in ReadTypes
    /\ IF ~CStringNewOk(name)
       THEN /\ ret' = Ret("get", "panic", NoHost, 0)
            /\ pops' = <<>>
            /\ UNCHANGED <<stack, guards>>
       ELSE LET r == GetRun(M0, globals, name, ty)
            IN /\ r.keep => CanGuard
               /\ stack' = r.m.st
               /\ pops' = r.m.log
               /\ guards' = IF r.keep
                            THEN Append(guards, PushGuardNew(LuaRef, 1, Len(stack), TRUE))
                            ELSE guards
               /\ ret' = Ret("get", IF r.some THEN "Some" ELSE "None", r.val, 0)
    /\ UNCHANGED <<globals, frames, owed, lastset, life, absidx, ctid>>

\* A value whose push fails, and a value of a type that declares PushOne but
\* pushes two slots.
FailVal == Host("Fail", 0)
PairVal == Host("Pair", 0)

\* A host closure fn(i32) -> Result<i32, String>, pushed as a function.
ClosureVal == Host("Function", 2)

\* Uuid::push_into_lua: one cdata slot of ctype struct tt_uuid.
UuidPushIntoLua(m, hv) == lua_push(m, CData(CtUuid, hv.v))

\* value.push_to_lua(self): Err leaves no slot; Ok leaves size slots.
PushVal(m, hv) ==
    CASE hv.ty = "Fail" -> [ok |-> FALSE, m |-> m, size |-> 0]
      [] hv.ty = "Uuid" -> [ok |-> TRUE, m |-> UuidPushIntoLua(m, hv), size |-> 1]
      [] hv.ty = "OtherCData" ->
           [ok |-> TRUE, m |-> lua_push(m, CData(CtOther, hv.v)), size |-> 1]
      [] hv.ty = "Pair" ->
           [ok |-> TRUE,
            m |-> lua_push(lua_push(m, Val("number", 1)), Val("number", 2)),
            size |-> 2]
      [] OTHER -> [ok |-> TRUE, m |-> lua_push(m, Encode(hv)), size |-> 1]

\* An error arm that leaves the table and the key on the stack.
CheckedSetErrArmLeak(m) == m

\* The Err arm of checked_set: the globals table and the key are popped.
CheckedSetErrArm(m) == lua_pop(m, 2)

\* An assertion that lets every count through.
AssertOneSkipped(size) == TRUE

\* assert_eq!(pushed.size, 1)
AssertOne(size) == size = 1

\* checked_set: globals table, key, value, lua_settable, lua_pop(1).  A
\* failed push takes the Err arm; a push of a count other than 1 panics, the
\* unwinding drops the guard of the pushed value.
CheckedSetRun(m, gl, name, hv) ==
    LET m1 == lua_push(m, GlobalsTab)
        m2 == lua_push(m1, Str(name))
        p == PushVal(m2, hv)
    IN IF ~p.ok
       THEN [m |-> CheckedSetErrArm(p.m), gl |-> gl, kind |-> "Err"]
       ELSE IF ~AssertOne(p.size)
            THEN [m |-> PushGuardDrop(p.m, p.size), gl |-> gl, kind |-> "panic"]
            ELSE LET r == lua_settable(p.m, gl, -3)
                 IN [m |-> lua_pop(r.m, 1), gl |-> r.gl, kind |-> "Ok"]

CheckedSet(name, hv) ==
    /\ name \in Names
    /\ hv \in HostVals \cup {FailVal, PairVal}
    /\ LET r == CheckedSetRun(M0, globals, name, hv)
       IN /\ Len(r.m.st) <= MaxStack
          /\ stack' = r.m.st
          /\ pops' = r.m.log
          /\ globals' = r.gl
          /\ lastset' = IF r.kind = "Ok"
                         THEN [lastset EXCEPT ![name] = hv] ELSE lastset
          /\ ret' = Ret("checked_set", r.kind, NoHost, 0)
    /\ UNCHANGED <<guards, frames, owed, life, absidx, ctid>>

\* set: checked_set with a value whose push cannot fail.
Set(name, hv) ==
    /\ name \in Names
    /\ hv \in HostVals \cup {PairVal, ClosureVal}
    /\ LET r == CheckedSetRun(M0, globals, name, hv)
       IN /\ Len(r.m.st) <= MaxStack
          /\ stack' = r.m.st
          /\ pops' = r.m.log
          /\ globals' = r.gl
          /\ lastset' = IF r.kind = "Ok"
                         THEN [lastset EXCEPT ![name] = hv] ELSE lastset
          /\ ret' = Ret("set", IF r.kind = "Ok" THEN "unit" ELSE r.kind, NoHost, 0)
    /\ UNCHANGED <<guards, frames, owed, life, absidx, ctid>>

\* lua_newtable creates a table distinct from every table still referenced.
TableIds(st, gl) ==
    {st[i].v : i \in {j \in 1..Len(st) : st[j].t = "table"}}
        \cup {gl[k].v : k \in {n \in DOMAIN gl : gl[n].t = "table"}}
NewTableId(st, gl) ==
    CHOOSE i \in 1..(Cardinality(TableIds(st, gl)) + 1) : i \notin TableIds(st, gl)

EmptyArrayRun(m, gl, name, id) ==
    LET m1 == lua_push(m, GlobalsTab)
        m2 == lua_push(m1, Str(name))
        m3 == lua_push(m2, Tab(id))
        r == lua_settable(m3, gl, -3)
    IN [m |-> lua_pop(r.m, 1), gl |-> r.gl]

EmptyArray(name) ==
    /\ name \in Names
    /\ CanGuard
    /\ LET r == EmptyArrayRun(M0, globals, name, NewTableId(stack, globals))
       IN /\ globals' = r.gl
          /\ IF ~CStringNewOk(name)
             THEN /\ stack' = r.m.st
                  /\ pops' = r.m.log
                  /\ ret' = Ret("empty_array", "panic", NoHost, 0)
                  /\ UNCHANGED guards
             ELSE LET q == GetRun(r.m, r.gl, name, "LuaTable")
                  IN /\ stack' = q.m.st
                     /\ pops' = q.m.log
                     /\ guards' = IF q.some
                                  THEN Append(guards,
                                         PushGuardNew(LuaRef, 1, Len(stack), TRUE))
                                  ELSE guards
                     /\ ret' = Ret("empty_array", IF q.some THEN "Ok" ELSE "panic",
                                   q.val, 0)
    /\ lastset' = [lastset EXCEPT ![name] = Host("LuaTable", NewTableId(stack, globals))]
    /\ UNCHANGED <<frames, owed, life, absidx, ctid>>

GlobalsTable ==
    /\ CanGuard
    /\ LET m == lua_push(M0, GlobalsTab)
       IN /\ stack' = m.st
          /\ pops' = m.log
    /\ guards' = Append(guards, PushGuardNew(LuaRef, 1, Len(stack), TRUE))
    /\ ret' = Ret("globals_table", "Ok", Host("LuaTable", 0), 0)
    /\ UNCHANGED <<globals, frames, owed, lastset, life, absidx, ctid>>

\* LuaTable::set on a live handle to the globals table: pushes key and value
\* and stores them into the table at the handle's position.
TableSetRun(m, gl, pos, name, lv) ==
    LET m1 == lua_push(m, Str(name))
        m2 == lua_push(m1, lv)
    IN lua_settable(m2, gl, pos - Bot)

TableSet(g, name, hv) ==
    /\ Usable(g)
    /\ guards[g].tbl
    /\ guards[g].size = 1
    /\ guards[g].base + 1 <= Len(stack)
    /\ guards[g].base + 1 > Bot
    /\ stack[guards[g].base + 1] = GlobalsTab
    /\ name \in Names
    /\ hv \in Scalars
    /\ LET r == TableSetRun(M0, globals, guards[g].base + 1, name, Encode(hv))
       IN /\ stack' = r.m.st
          /\ pops' = r.m.log
          /\ globals' = r.gl
    /\ lastset' = [lastset EXCEPT ![name] = hv]
    /\ ret' = Ret("table_set", "unit", NoHost, 0)
    /\ UNCHANGED <<guards, frames, owed, life, absidx, ctid>>

\* ------------------------------------------------------------------------
\* AsLua::try_push and AsLua::read_at
\* ------------------------------------------------------------------------
\* try_push: Ok gives a guard over the slots pushed, Err gives the handle
\* back.
TryPush(h, hv) ==
    /\ h \in Handles
    /\ LET p == PushVal(M0, hv)
       IN IF p.ok
          THEN /\ Len(guards) < MaxGuards
               /\ Len(p.m.st) <= MaxStack
               /\ stack' = p.m.st
               /\ pops' = p.m.log
               /\ guards' = Append(guards,
                                PushGuardNew(h, p.size, Len(stack), FALSE))
               /\ ret' = RetG("try_push", "Ok", p.size, h)
          ELSE /\ stack' = p.m.st
               /\ pops' = p.m.log
               /\ ret' = RetG("try_push", "Err", 0, h)
               /\ UNCHANGED guards
    /\ UNCHANGED <<globals, frames, owed, lastset, life, absidx, ctid>>

\* Push of a tuple.  An error arm that leaves the earlier elements' slots.
TuplePushErrArmLeak(m, total) == m

\* The error arm of a tuple push: a guard over the slots pushed so far is
\* dropped.
TuplePushErrArm(m, total) == PushGuardDrop(m, total)

\* Elements are pushed left to right, each guard is forgotten and its count
\* added to total; the first failing element ends the push.
RECURSIVE TuplePushRun(_, _, _)
TuplePushRun(m, es, total) ==
    IF es = <<>> THEN [ok |-> TRUE, m |-> m, size |-> total]
    ELSE LET p == PushVal(m, Head(es))
         IN IF ~p.ok
            THEN [ok |-> FALSE, m |-> TuplePushErrArm(p.m, total), size |-> 0]
            ELSE TuplePushRun(p.m, Tail(es), total + p.size)

\* The tuples pushed: two scalars, a two-slot element, and tuples whose
\* first, second or third element fails.
Tuples ==
    {<<Host("i32", 5), Host("bool", 1)>>,
     <<PairVal>>,
     <<FailVal, Host("i32", 5)>>,
     <<Host("i32", 5), FailVal>>,
     <<Host("i32", 5), PairVal, FailVal>>}

TuplePush(h, es) ==
    /\ h \in Handles
    /\ LET r == TuplePushRun(M0, es, 0)
       IN /\ stack' = r.m.st
          /\ pops' = r.m.log
          /\ IF r.ok
             THEN /\ Len(guards) < MaxGuards
                  /\ Len(r.m.st) <= MaxStack
                  /\ guards' = Append(guards,
                                   PushGuardNew(h, r.size, Len(stack), FALSE))
                  /\ ret' = RetG("push_tuple", "Ok", r.size, h)
             ELSE /\ ret' = RetG("push_tuple", "Err", 0, h)
                  /\ UNCHANGED guards
    /\ UNCHANGED <<globals, frames, owed, lastset, life, absidx, ctid>>

\* Uuid::lua_read_at_position: the slot must be cdata of ctype struct tt_uuid.
UuidLuaReadAtPositionAnyCData(st, idx) == lua_type(st, idx) = "cdata"

UuidLuaReadAtPosition(st, idx) ==
    IF lua_type(st, idx) # "cdata" THEN FALSE
    ELSE st[AbsPos(st, idx)].s = CtUuid

\* lua_read_at_position of the requested type at a nonzero index.
LuaReadAtPosition(ty, st, idx) ==
    CASE ty = "Nil" -> NilLuaReadAtPosition(st, idx)
      [] ty = "Uuid" -> UuidLuaReadAtPosition(st, idx)
      [] OTHER -> AbsPos(st, idx) # 0 /\ Decodes(ty, st[AbsPos(st, idx)])

\* A reading of index 0 as the top of the stack.
LuaReadAtMaybeZeroPositionTop(ty, st, idx) ==
    [ok |-> LuaReadAtPosition(ty, st, IF idx = 0 THEN -1 ELSE idx),
     called |-> TRUE]

\* The default lua_read_at_maybe_zero_position: index 0 is Err without a
\* call of lua_read_at_position.
LuaReadAtMaybeZeroPosition(ty, st, idx) ==
    IF idx # 0
    THEN [ok |-> LuaReadAtPosition(ty, st, idx), called |-> TRUE]
    ELSE [ok |-> FALSE, called |-> FALSE]

\* A Nil read that treats index 0 as the default implementation does.
NilLuaReadAtMaybeZeroPositionDefault(st, idx) ==
    IF idx # 0
    THEN [ok |-> NilLuaReadAtPosition(st, idx), called |-> TRUE]
    ELSE [ok |-> FALSE, called |-> FALSE]

\* Nil::lua_read_at_maybe_zero_position: index 0 reads as Nil.
NilLuaReadAtMaybeZeroPosition(st, idx) ==
    IF idx # 0
    THEN [ok |-> NilLuaReadAtPosition(st, idx), called |-> TRUE]
    ELSE [ok |-> TRUE, called |-> FALSE]

\* The host value a successful read gives.  The bytes of a Uuid are not
\* followed here.
ReadValue(ty, st, idx) ==
    CASE ty = "Nil" -> Host("Nil", 0)
      [] ty = "Uuid" -> Host("Uuid", 0)
      [] OTHER -> Decode(ty, st[AbsPos(st, idx)])

\* AsLua::read_at: Ok consumes the handle (a guard given by value is
\* dropped), Err gives it back.  ret.n counts the calls of
\* lua_read_at_position; ret.ty and ret.at record the requested type and
\* index.
ReadAt(h, ty, idx) ==
    /\ h \in Handles
    /\ LET r == IF ty = "Nil" THEN NilLuaReadAtMaybeZeroPosition(stack, idx)
                ELSE LuaReadAtMaybeZeroPosition(ty, stack, idx)
           calls == IF r.called THEN 1 ELSE 0
       IN IF r.ok
          THEN /\ ret' = [op |-> "read_at", kind |-> "Ok",
                          val |-> ReadValue(ty, stack, idx), n |-> calls,
                          h |-> h, ty |-> ty, at |-> idx]
               /\ IF ~h.ref
                  THEN LET ids == Chain(guards, h.to)
                           m == DropAll(M0, guards, ids)
                       IN /\ stack' = m.st
                          /\ pops' = m.log
                          /\ guards' = RemoveGuards(guards, SeqSet(ids))
                  ELSE /\ pops' = <<>>
                       /\ UNCHANGED <<stack, guards>>
          ELSE /\ ret' = [op |-> "read_at", kind |-> "Err", val |-> NoHost,
                          n |-> calls, h |-> h, ty |-> ty, at |-> idx]
               /\ pops' = <<>>
               /\ UNCHANGED <<stack, guards>>
    /\ UNCHANGED <<globals, frames, owed, lastset, life, absidx, ctid>>

\* ------------------------------------------------------------------------
\* ctid_uuid and CTID_UUID.  ctid.CTID_UUID is the static Option<u32>, <<>>
\* for None and <<id>> for Some(id); ctid.asked tells whether ctid_uuid was
\* called before and ctid.returned holds the value the last call that
\* returned gave, <<>> while none has.
\* ------------------------------------------------------------------------
\* The ctype id 0, which luaL_ctypeid gives for no type.
Ct0 == <<0>>

\* What luaL_ctypeid(lua, "struct tt_uuid") can return.
CtypeidResults == {Ct0, CtUuid}

\* A ctid_uuid that asks luaL_ctypeid every time.
ctid_uuid_uncached(cached, r) ==
    IF r # Ct0
    THEN [cached |-> <<r>>, called |-> TRUE, panic |-> FALSE, val |-> r]
    ELSE [cached |-> cached, called |-> TRUE, panic |-> TRUE, val |-> r]

\* ctid_uuid(): r is what luaL_ctypeid returns if it is called.  The
\* assertion fails on 0 before CTID_UUID is written.
ctid_uuid(cached, r) ==
    IF cached = <<>>
    THEN IF r # Ct0
         THEN [cached |-> <<r>>, called |-> TRUE, panic |-> FALSE, val |-> r]
         ELSE [cached |-> cached, called |-> TRUE, panic |-> TRUE, val |-> r]
    ELSE [cached |-> cached, called |-> FALSE, panic |-> FALSE,
          val |-> cached[1]]

\* ctid after a call of ctid_uuid with outcome c.
CtidAfter(c) ==
    [CTID_UUID |-> c.cached, asked |-> TRUE,
     returned |-> IF c.panic THEN ctid.returned ELSE <<c.val>>]

\* What a push or read that went through ctid_uuid reports: called tells
\* whether luaL_ctypeid ran, id is the value ctid_uuid returned.
CtidRet(op, kind, c, n) ==
    [op |-> op, kind |-> kind, val |-> NoHost, n |-> n, h |-> LuaRef,
     asked |-> TRUE, called |-> c.called,
     id |-> IF c.panic THEN <<>> ELSE <<c.val>>]

\* Uuid::push_into_lua on a borrow of the context: luaL_pushcdata with
\* ctid_uuid(), then PushGuard::new(lua, 1).
UuidPush(r) ==
    /\ r \in CtypeidResults
    /\ LET c == ctid_uuid(ctid.CTID_UUID, r)
       IN /\ ctid' = CtidAfter(c)
          /\ IF c.panic
             THEN /\ ret' = CtidRet("uuid_push", "panic", c, 0)
                  /\ UNCHANGED <<stack, guards>>
             ELSE /\ CanGuard
                  /\ stack' = lua_push(M0, CData(c.val, 1)).st
                  /\ guards' = Append(guards,
                                   PushGuardNew(LuaRef, 1, Len(stack), FALSE))
                  /\ ret' = CtidRet("uuid_push", "Ok", c, 1)
    /\ pops' = <<>>
    /\ UNCHANGED <<globals, frames, owed, lastset, life, absidx>>

\* Uuid::lua_read_at_position on a borrow of the context: a slot that is
\* not cdata is Err before ctid_uuid is called.
UuidRead(idx, r) ==
    /\ r \in CtypeidResults
    /\ idx \in {-1, 1}
    /\ IF lua_type(stack, idx) # "cdata"
       THEN /\ ret' = [op |-> "uuid_read", kind |-> "Err", val |-> NoHost,
                       n |-> 0, h |-> LuaRef, asked |-> FALSE,
                       called |-> FALSE, id |-> <<>>]
            /\ UNCHANGED ctid
       ELSE LET c == ctid_uuid(ctid.CTID_UUID, r)
            IN /\ ctid' = CtidAfter(c)
               /\ ret' = CtidRet("uuid_read",
                                 IF c.panic THEN "panic"
                                 ELSE IF stack[AbsPos(stack, idx)].s # c.val
                                 THEN "Err" ELSE "Ok",
                                 c, 0)
    /\ pops' = <<>>
    /\ UNCHANGED <<stack, globals, guards, frames, owed, lastset, life, absidx>>

NextCtid ==
    \/ \E r \in CtypeidResults : UuidPush(r)
    \/ \E idx \in {-1, 1}, r \in CtypeidResults : UuidRead(idx, r)
    \/ \E hv \in {Host("OtherCData", 1), Host("i32", 5)} : TryPush(LuaRef, hv)
    \/ PushNil(LuaRef)
    \/ \E g \in Live : DropGuard(g)

SpecCtid == Init /\ [][NextCtid]_vars

\* ------------------------------------------------------------------------
\* to_cstring_lossy / into_cstring_lossy.  A String is the sequence of its
\* UTF-8 bytes; a CString is its bytes followed by the terminating NUL.
\* ------------------------------------------------------------------------
MaxStrLen == 3

\* U+FFFD as UTF-8.
REPLACEMENT == <<239, 191, 189>>

\* The characters the inputs are made of: NUL, "h", " " and U+FFFD.
StrChars == {<<0>>, <<104>>, <<32>>, REPLACEMENT}

RECURSIVE Flatten(_)
Flatten(cs) == IF cs = <<>> THEN <<>> ELSE Head(cs) \o Flatten(Tail(cs))

RECURSIVE CharSeqs(_)
CharSeqs(n) ==
    IF n = 0 THEN {<<>>}
    ELSE LET shorter == CharSeqs(n - 1)
         IN shorter \cup {Append(cs, c) : cs \in {x \in shorter : Len(x) = n - 1},
                                          c \in StrChars}

\* "hell\0 w\0rld\0", the message of the test check_to_cstring_lossy.
TestMessage == <<104, 101, 108, 108, 0, 32, 119, 0, 114, 108, 100, 0>>

StrInputs == {Flatten(cs) : cs \in CharSeqs(MaxStrLen)} \cup {TestMessage}

\* CString::from_vec_unchecked, and the Ok of CString::new: the terminator
\* is appended.
CStringFromVec(v) == Append(v, 0)

\* A replace that removes the NUL bytes.
StrReplaceNulRemoves(str) == SelectSeq(str, LAMBDA b : b # 0)

\* s.replace('\0', "\u{FFFD}")
RECURSIVE StrReplaceNul(_)
StrReplaceNul(str) ==
    IF str = <<>> THEN <<>>
    ELSE (IF Head(str) = 0 THEN REPLACEMENT ELSE <<Head(str)>>)
            \o StrReplaceNul(Tail(str))

\* A conversion that drops the NUL bytes on the error path.
into_cstring_lossy_drops(str) ==
    IF CStringNewOk(str) THEN CStringFromVec(str)
    ELSE CStringFromVec(StrReplaceNulRemoves(str))

\* into_cstring_lossy(s): CString::new(s), and on its error the bytes it
\* hands back with every NUL replaced.
into_cstring_lossy(str) ==
    IF CStringNewOk(str) THEN CStringFromVec(str)
    ELSE CStringFromVec(StrReplaceNul(str))

\* to_cstring_lossy(s) == into_cstring_lossy(s.into())
to_cstring_lossy(str) == into_cstring_lossy(str)

CStrRet(op, str, c) ==
    [op |-> op, kind |-> "CString", val |-> NoHost, n |-> 0, h |-> LuaRef,
     input |-> str, cstring |-> c]

IntoCStringLossy(str) ==
    /\ str \in StrInputs
    /\ ret' = CStrRet("into_cstring_lossy", str, into_cstring_lossy(str))
    /\ pops' = <<>>
    /\ UNCHANGED <<stack, globals, guards, frames, owed, lastset, life, absidx, ctid>>

ToCStringLossy(str) ==
    /\ str \in StrInputs
    /\ ret' = CStrRet("to_cstring_lossy", str, to_cstring_lossy(str))
    /\ pops' = <<>>
    /\ UNCHANGED <<stack, globals, guards, frames, owed, lastset, life, absidx, ctid>>

NextCString ==
    \/ \E str \in StrInputs : IntoCStringLossy(str)
    \/ \E str \in StrInputs : ToCStringLossy(str)

SpecCString == Init /\ [][NextCString]_vars

\* ------------------------------------------------------------------------
\* LuaError::wrong_type and lua_typename
\* ------------------------------------------------------------------------
\* ffi::lua_typename: the name of a type code; LUA_TNONE is "no value".
TypeName(t) == IF t = "none" THEN "no value" ELSE t

\* single_typename!(i): the type name of the slot at index -i.
single_typename(st, i) == TypeName(lua_type(st, -i))

\* res.join(""): the pieces of a text, in order.
RECURSIVE JoinNames(_, _, _)
JoinNames(st, i, n) ==
    IF i >= n THEN <<>>
    ELSE <<single_typename(st, i), ", ">> \o JoinNames(st, i + 1, n)

\* A rendering that puts no parentheses around several names.
lua_typename_bare(st, n_values) ==
    IF n_values = 1 THEN <<single_typename(st, 1)>>
    ELSE JoinNames(st, 1, n_values) \o <<single_typename(st, n_values)>>

\* lua_typename(lua, n_values): a text, as the sequence of its pieces.
lua_typename(st, n_values) ==
    IF n_values = 1 THEN <<single_typename(st, 1)>>
    ELSE <<"(">> \o JoinNames(st, 1, n_values)
                \o <<single_typename(st, n_values), ")">>

\* LuaError::wrong_type::<T>(lua, n_values)
WrongType(ty, n_values) ==
    /\ n_values \in 1..lua_gettop(stack)
    /\ ret' = [op |-> "wrong_type", kind |-> "WrongType", val |-> NoHost,
               n |-> n_values, h |-> LuaRef, rust_expected |-> ty,
               lua_actual |-> lua_typename(stack, n_values)]
    /\ pops' = <<>>
    /\ UNCHANGED <<stack, globals, guards, frames, owed, lastset, life, absidx, ctid>>

\* ------------------------------------------------------------------------
\* AbsoluteIndex
\* ------------------------------------------------------------------------
LUA_REGISTRYINDEX == -10000

\* ffi::is_relative_index: negative, and not a pseudo-index.
is_relative_index(i) == i < 0 /\ i > LUA_REGISTRYINDEX

\* A conversion that forgets that index -1 is the top slot.
AbsoluteIndexValueNoPlusOne(i, top) ==
    IF is_relative_index(i) THEN top + i ELSE i

\* The number AbsoluteIndex::new stores; 0 stands for the panic of
\* NonZeroI32::new(0).expect(..).
AbsoluteIndexValue(i, top) ==
    IF is_relative_index(i) THEN top + i + 1 ELSE i

\* AbsoluteIndex::new(index, lua).  absidx is the AbsoluteIndex the caller
\* holds: v is the stored number, of and top record the index and the height
\* it was made from.
AbsoluteIndexNew(i) ==
    /\ i # 0
    /\ LET v == AbsoluteIndexValue(i, lua_gettop(stack))
       IN IF v = 0
          THEN /\ ret' = Ret("absolute_index", "panic", NoHost, 0)
               /\ UNCHANGED absidx
          ELSE /\ ret' = Ret("absolute_index", "Ok", NoHost, v)
               /\ absidx' = [v |-> v, of |-> i, top |-> lua_gettop(stack)]
    /\ pops' = <<>>
    /\ UNCHANGED <<stack, globals, guards, frames, owed, lastset, life, ctid>>

\* ------------------------------------------------------------------------
\* Lua::new, Lua::from_existing_state and Drop for Lua
\* ------------------------------------------------------------------------
\* life.states[p] counts the calls of lua_close on the interpreter state at
\* pointer p (state 1 was allocated by the host program); life.luas holds
\* every Lua value ever built, by is the constructor and alive is false once
\* the value was dropped; life.atpanic is the set of pointers lua_atpanic
\* was called on.
Null == 0

\* A null test that lets every pointer through.
IsNullNever(p) == FALSE

\* lua.is_null()
IsNull(p) == p = Null

\* A Lua::new that returns a value which does not own its state.
LuaNewValueUnowned(p) ==
    [lua |-> p, must_be_closed |-> FALSE, by |-> "new", alive |-> TRUE]

\* The value Lua::new returns.
LuaNewValue(p) ==
    [lua |-> p, must_be_closed |-> TRUE, by |-> "new", alive |-> TRUE]

\* A destructor that closes whatever the flag says.
LuaDropClosesAlways(l) == TRUE

\* Drop for Lua: lua_close is called only under must_be_closed.
LuaDropCloses(l) == l.must_be_closed

\* Lua::new, p is what luaL_newstate returned: null, or a fresh state.
LuaNew(p) ==
    /\ Len(life.luas) < MaxLuas
    /\ IsNull(p) \/ Len(life.states) < MaxStates
    /\ IF IsNull(p)
       THEN /\ ret' = Ret("new", "panic", NoHost, p)
            /\ UNCHANGED life
       ELSE /\ ret' = Ret("new", "Ok", NoHost, p)
            /\ life' = [states |-> Append(life.states, [closes |-> 0]),
                        luas |-> Append(life.luas, LuaNewValue(p)),
                        atpanic |-> life.atpanic \cup {p}]
    /\ pops' = <<>>
    /\ UNCHANGED <<stack, globals, guards, frames, owed, lastset, absidx, ctid>>

\* Lua::from_existing_state(lua, close_at_the_end)
FromExistingState(p, close_at_the_end) ==
    /\ Len(life.luas) < MaxLuas
    /\ p \in 1..Len(life.states)
    /\ life' = [life EXCEPT !.luas =
                   Append(@, [lua |-> p, must_be_closed |-> close_at_the_end,
                              by |-> "existing", alive |-> TRUE])]
    /\ ret' = Ret("from_existing_state", "Ok", NoHost, p)
    /\ pops' = <<>>
    /\ UNCHANGED <<stack, globals, guards, frames, owed, lastset, absidx, ctid>>

\* drop of the i-th Lua value
DropLua(i) ==
    /\ i \in 1..Len(life.luas)
    /\ life.luas[i].alive
    /\ LET l == life.luas[i]
       IN life' = [life EXCEPT
                     !.luas[i].alive = FALSE,
                     !.states = IF LuaDropCloses(l)
                                THEN [@ EXCEPT ![l.lua].closes = @ + 1]
                                ELSE @]
    /\ ret' = Ret("drop_lua", "unit", NoHost, i)
    /\ pops' = <<>>
    /\ UNCHANGED <<stack, globals, guards, frames, owed, lastset, absidx, ctid>>

\* ------------------------------------------------------------------------
\* Lua::into_get: the context is given by value and ends up inside the
\* guard, Hnd(FALSE, 0).  The context of stack is the Lua that Lua::new made
\* over life.states[1].
\* ------------------------------------------------------------------------
MainLua == LuaNewValue(1)

\* The guard that holds the context by value, if any.
LuaMoved == \E g \in Live : guards[g].h = Hnd(FALSE, 0)
LuaClosed == life.states[1].closes > 0

\* The guard g, through the guards it holds by value, holds the context.
Owns(g) ==
    LET ids == Chain(guards, g)
    IN guards[ids[Len(ids)]].h = Hnd(FALSE, 0)

\* Drop of the context held by the caller or by a guard.
DropMainLua(lf) ==
    IF LuaDropCloses(MainLua)
    THEN [lf EXCEPT !.states[1].closes = @ + 1]
    ELSE lf

\* into_get, is_nil arm: Err(guard), the slot stays under the guard.
IntoGetNilArm(m) == [m |-> m, keep |-> TRUE]

\* into_get after the name conversion: lua_getglobal, lua_isnil(-1),
\* PushGuard::new(self, 1), then Err(guard) or LuaRead::lua_read(guard).
\* A read that succeeds consumes the guard, except that a table keeps it;
\* a read that fails gives the guard back.
IntoGetRun(m, gl, name, ty) ==
    LET m1 == lua_getglobal(m, gl, name)
        top == m1.st[Len(m1.st)]
        is_nil == lua_isnil(m1.st, -1)
        nilarm == IntoGetNilArm(m1)
        read == LuaReadAtPosition(ty, m1.st, -1)
    IN IF is_nil
       THEN [m |-> nilarm.m, kind |-> "Err", keep |-> nilarm.keep,
             closes |-> FALSE, val |-> NoHost]
       ELSE IF ~read
       THEN [m |-> m1, kind |-> "Err", keep |-> TRUE, closes |-> FALSE,
             val |-> NoHost]
       ELSE IF ty = "LuaTable"
       THEN [m |-> m1, kind |-> "Ok", keep |-> TRUE, closes |-> FALSE,
             val |-> Decode(ty, top)]
       ELSE [m |-> PushGuardDrop(m1, 1), kind |-> "Ok", keep |-> FALSE,
             closes |-> TRUE, val |-> Decode(ty, top)]

\* Lua::into_get(self, index).  A panic of the name conversion unwinds
\* through the frame that owns self, which drops it.
IntoGet(name, ty) ==
    /\ name \in Names
    /\ ty \in ReadTypes
    /\ guards = <<>>
    /\ ~LuaClosed
    /\ IF ~CStringNewOk(name)
       THEN /\ ret' = Ret("into_get", "panic", NoHost, 0)
            /\ pops' = <<>>
            /\ life' = DropMainLua(life)
            /\ UNCHANGED <<stack, guards>>
       ELSE LET r == IntoGetRun(M0, globals, name, ty)
            IN /\ stack' = r.m.st
               /\ pops' = r.m.log
               /\ guards' = IF r.keep
                            THEN <<PushGuardNew(Hnd(FALSE, 0), 1, Len(stack),
                                                r.kind = "Ok")>>
                            ELSE guards
               /\ life' = IF r.closes THEN DropMainLua(life) ELSE life
               /\ ret' = [op |-> "into_get", kind |-> r.kind, val |-> r.val,
                          n |-> 0,
                          h |-> IF r.keep THEN Hnd(FALSE, 1) ELSE LuaRef]
    /\ UNCHANGED <<globals, frames, owed, lastset, absidx, ctid>>

\* A guard that holds the context goes out of scope: the slots are popped,
\* then the context is dropped.
DropOwner(g) ==
    /\ Movable(g)
    /\ Owns(g)
    /\ LET ids == Chain(guards, g)
           m == DropAll(M0, guards, ids)
       IN /\ stack' = m.st
          /\ pops' = m.log
          /\ guards' = RemoveGuards(guards, SeqSet(ids))
    /\ life' = DropMainLua(life)
    /\ ret' = RetG("drop", "Ok", guards[g].size, guards[g].h)
    /\ UNCHANGED <<globals, frames, owed, lastset, absidx, ctid>>

NextInto ==
    \/ \E name \in Names, ty \in ReadTypes : IntoGet(name, ty)
    \/ \E g \in Live : IntoInner(g)
    \/ \E g \in Live : DropOwner(g)
    \/ \E g \in Live : ~Owns(g) /\ DropGuard(g)
    \/ \E h \in Handles : /\ ~LuaClosed
                          /\ h = LuaRef => ~LuaMoved
                          /\ PushNil(h)
    \/ \E hv \in {Host("i32", 5), Host("bool", 1), Host("Nil", 0)} :
          /\ ~LuaClosed
          /\ ~LuaMoved
          /\ Set(NameA, hv)
    \/ /\ ~LuaClosed
       /\ ~LuaMoved
       /\ EmptyArray(NameA)

SpecInto == Init /\ [][NextInto]_vars

\* ------------------------------------------------------------------------
\* Lua::execute and Lua::open_base
\* ------------------------------------------------------------------------
\* Source texts: "a = 12 * 5", "return a / 2", "return assert(true)" and a
\* text that does not compile.
ChAssign == "a = 12 * 5"
ChHalf == "return a / 2"
ChAssert == "return assert(true)"
ChBad == "return +"
Chunks == {ChAssign, ChHalf, ChAssert, ChBad}

\* The types execute is asked to decode the results as.
ExecTypes == {"unit", "i32", "bool"}

FunctionV == Val("function", 1)
ErrMsg == Str(<<101>>)

\* luaL_loadstring: whether the text compiles.
Compiles(chunk) == chunk # ChBad

\* Source texts that call the host closure stored in the global "a": with
\* an integer it accepts, with a boolean, and with an integer it rejects.
ChCallOk == "return a(5)"
ChCallWrong == "return a(true)"
ChCallErr == "return a(-1)"
ClosureChunks == {ChCallOk, ChCallWrong, ChCallErr}
ChunkArg(chunk) ==
    CASE chunk = ChCallOk -> Val("number", 5)
      [] chunk = ChCallWrong -> Val("boolean", 1)
      [] OTHER -> Val("number", -1)

\* Texts as byte strings: "i32", the interpreter's type names, "negative".
RustNameI32 == <<105, 51, 50>>
TypeNameBytes(t) ==
    CASE t = "boolean" -> <<98, 111, 111, 108, 101, 97, 110>>
      [] t = "number" -> <<110, 117, 109, 98, 101, 114>>
      [] OTHER -> <<110, 105, 108>>
TextNegative == <<110, 101, 103, 97, 116, 105, 118, 101>>

\* A lua_error! that returns to the closure's caller.
lua_error_returns(msg) == [raised |-> FALSE, msg |-> msg, rets |-> <<>>]

\* lua_error!: luaL_error raises with the message and does not return.
lua_error(msg) == [raised |-> TRUE, msg |-> msg, rets |-> <<>>]

\* The closure: the successor of a non-negative number, an error otherwise.
HostClosure(x) ==
    IF x >= 0 THEN [ok |-> TRUE, v |-> x + 1, text |-> <<>>]
    ELSE [ok |-> FALSE, v |-> 0, text |-> TextNegative]

\* The wrapper the interpreter calls: the argument is read as i32, the
\* closure is called, an Ok result is pushed and returned; a failed read and
\* an Err result raise.
CallClosure(arg) ==
    IF ~Decodes("i32", arg)
    THEN lua_error(Str(RustNameI32 \o <<32>> \o TypeNameBytes(arg.t)))
    ELSE LET r == HostClosure(arg.v)
         IN IF r.ok
            THEN [raised |-> FALSE, msg |-> NilV, rets |-> <<Val("number", r.v)>>]
            ELSE lua_error(Str(r.text))

\* The chunk run under lua_pcall: whether it raises, the globals it leaves
\* and the values it returns.
RunChunk(chunk, gl) ==
    CASE chunk = ChAssign ->
           [raised |-> FALSE, gl |-> [gl EXCEPT ![NameA] = Val("number", 12 * 5)],
            rets |-> <<>>, msg |-> NilV]
      [] chunk = ChHalf ->
           IF gl[NameA].t = "number"
           THEN [raised |-> FALSE, gl |-> gl,
                 rets |-> <<Val("number", gl[NameA].v \div 2)>>, msg |-> NilV]
           ELSE [raised |-> TRUE, gl |-> gl, rets |-> <<>>, msg |-> ErrMsg]
      [] chunk = ChAssert ->
           IF gl[NameAssert].t = "function"
           THEN [raised |-> FALSE, gl |-> gl, rets |-> <<Val("boolean", 1)>>,
                 msg |-> NilV]
           ELSE [raised |-> TRUE, gl |-> gl, rets |-> <<>>, msg |-> ErrMsg]
      [] chunk \in ClosureChunks ->
           IF gl[NameA] = Encode(ClosureVal)
           THEN LET c == CallClosure(ChunkArg(chunk))
                IN [raised |-> c.raised, gl |-> gl, rets |-> c.rets, msg |-> c.msg]
           ELSE [raised |-> TRUE, gl |-> gl, rets |-> <<>>, msg |-> ErrMsg]
      [] OTHER -> [raised |-> TRUE, gl |-> gl, rets |-> <<>>, msg |-> ErrMsg]

\* The latest value written to "a" once the chunk has run.
ChunkWrites(chunk, ls) ==
    IF chunk = ChAssign THEN [ls EXCEPT ![NameA] = Host("i32", 12 * 5)] ELSE ls

RECURSIVE PushAll(_, _)
PushAll(m, lvs) ==
    IF lvs = <<>> THEN m ELSE PushAll(lua_push(m, Head(lvs)), Tail(lvs))

\* Decoding of the returned values as ty: () reads nothing, a scalar reads
\* the one value returned.
ReadResults(ty, rets) ==
    IF ty = "unit" THEN TRUE
    ELSE Len(rets) = 1 /\ Decodes(ty, rets[1])

\* LuaFunction::load then into_call.  A text that does not compile leaves an
\* error message, which is read and popped (SyntaxError).  Otherwise the
\* function slot goes under a guard of 1 and is called: a raise leaves an
\* error message, read and popped (ExecutionError); a return leaves the
\* values under a guard of their number, decoded (Ok) or not (WrongType).
\* Every guard is dropped before execute returns.  errs counts the
\* error-message slots read.
ExecuteRun(m, gl, chunk, ty) ==
    IF ~Compiles(chunk)
    THEN [m |-> PushGuardDrop(lua_push(m, ErrMsg), 1), gl |-> gl,
          kind |-> "SyntaxError", val |-> NoHost, errs |-> 1, ran |-> FALSE]
    ELSE LET m1 == lua_push(m, FunctionV)
             r == RunChunk(chunk, gl)
         IN IF r.raised
            THEN [m |-> PushGuardDrop(PushGuardDrop(lua_push(m1, r.msg), 1), 1),
                  gl |-> r.gl,
                  kind |-> "ExecutionError", val |-> HostStr(r.msg.s), errs |-> 1,
                  ran |-> TRUE]
            ELSE LET m2 == PushAll(m1, r.rets)
                     ok == ReadResults(ty, r.rets)
                 IN [m |-> PushGuardDrop(PushGuardDrop(m2, Len(r.rets)), 1),
                     gl |-> r.gl,
                     kind |-> IF ok THEN "Ok" ELSE "WrongType",
                     val |-> IF ok /\ ty # "unit"
                             THEN Decode(ty, r.rets[1]) ELSE NoHost,
                     errs |-> 0, ran |-> TRUE]

Execute(chunk, ty) ==
    /\ chunk \in Chunks \cup ClosureChunks
    /\ ty \in ExecTypes
    /\ LET r == ExecuteRun(M0, globals, chunk, ty)
       IN /\ stack' = r.m.st
          /\ pops' = r.m.log
          /\ globals' = r.gl
          /\ lastset' = IF r.ran THEN ChunkWrites(chunk, lastset) ELSE lastset
          /\ ret' = Ret("execute", r.kind, r.val, r.errs)
    /\ UNCHANGED <<guards, frames, owed, life, absidx, ctid>>

\* An open_base that loads nothing.
OpenBaseNothing ==
    /\ pops' = <<>>
    /\ ret' = Ret("open_base", "unit", NoHost, 0)
    /\ UNCHANGED <<stack, globals, guards, frames, owed, lastset, life, absidx, ctid>>

\* luaopen_base: the base library's functions become globals.
OpenBase ==
    /\ globals' = [globals EXCEPT ![NameAssert] = FunctionV]
    /\ pops' = <<>>
    /\ ret' = Ret("open_base", "unit", NoHost, 0)
    /\ UNCHANGED <<stack, guards, frames, owed, lastset, life, absidx, ctid>>

\* ------------------------------------------------------------------------
\* Reentry: the interpreter calls a host closure in a fresh frame and
\* discards the frame when the closure returns.
\* ------------------------------------------------------------------------
EnterCallback(args) ==
    /\ Depth <= MaxDepth
    /\ Len(stack) + Len(args) <= MaxStack
    /\ stack' = stack \o args
    /\ frames' = Append(frames, [bot |-> Len(stack),
                                 entry |-> Len(stack) + Len(args),
                                 owed |-> owed])
    /\ owed' = 0
    /\ pops' = <<>>
    /\ ret' = Ret("enter", "unit", NoHost, 0)
    /\ UNCHANGED <<globals, guards, lastset, life, absidx, ctid>>

ReturnCallback ==
    /\ Depth > 1
    /\ \A g \in Live : guards[g].depth # Depth
    /\ stack' = SubSeq(stack, 1, Bot)
    /\ owed' = frames[Depth].owed
    /\ frames' = SubSeq(frames, 1, Depth - 1)
    /\ pops' = <<>>
    /\ ret' = Ret("return", "unit", NoHost, 0)
    /\ UNCHANGED <<globals, guards, lastset, life, absidx, ctid>>

\* ------------------------------------------------------------------------
\* Uuid: bytes, the native record struct tt_uuid, and the wire form
\* ------------------------------------------------------------------------
\* A Uuid is its 16 bytes in big-endian order.  ret.data is the value the
\* last operation produced, ret.prev the value it was computed from and
\* ret.orig the value that one was computed from.
UuidLen == 16
MP_UUID == 2

\* Byte strings the inputs are drawn from: 16 bytes, and one byte less or
\* more.
ByteString(a, b, len) == [i \in 1..len |-> (a * i + b) % 256]
UuidInputs == {ByteString(a, b, UuidLen) : a \in {0, 1, 17}, b \in {0, 1, 200, 255}}
SliceInputs ==
    UuidInputs \cup {ByteString(a, 1, len) : a \in {0, 17},
                                            len \in {0, UuidLen - 1, UuidLen + 1}}
ExtKinds == {-1, 1, MP_UUID, 3}

RECURSIVE Reverse(_)
Reverse(x) == IF x = <<>> THEN <<>> ELSE Append(Reverse(Tail(x)), Head(x))

\* u32::swap_bytes / u16::swap_bytes on a field as it lies in memory.
swap_bytes(x) == Reverse(x)

\* Uuid::from_bytes / Uuid::as_bytes
from_bytes(bytes) == bytes
as_bytes(u) == u

\* Uuid::try_from_slice: TryInto<[u8; 16]> of the slice.
try_from_slice(bytes) ==
    IF Len(bytes) = UuidLen
    THEN [some |-> TRUE, u |-> from_bytes(bytes)]
    ELSE [some |-> FALSE, u |-> <<>>]

\* std::mem::transmute between [u8; 16] and struct tt_uuid: tl is 4 bytes,
\* tm and th are 2 bytes each, 8 bytes follow.
TransmuteToTt(bytes) ==
    [tl |-> SubSeq(bytes, 1, 4), tm |-> SubSeq(bytes, 5, 6),
     th |-> SubSeq(bytes, 7, 8), rest |-> SubSeq(bytes, 9, 16)]
TransmuteToBytes(tt) == tt.tl \o tt.tm \o tt.th \o tt.rest

\* A conversion that leaves th as it is.
to_tt_uuid_th_unswapped(u) ==
    LET tt == TransmuteToTt(as_bytes(u))
    IN [tt EXCEPT !.tl = swap_bytes(@), !.tm = swap_bytes(@)]

\* Uuid::to_tt_uuid
to_tt_uuid(u) ==
    LET tt == TransmuteToTt(as_bytes(u))
    IN [tt EXCEPT !.tl = swap_bytes(@), !.tm = swap_bytes(@),
                  !.th = swap_bytes(@)]

\* Uuid::from_tt_uuid
from_tt_uuid(tt) ==
    from_bytes(TransmuteToBytes([tt EXCEPT !.tl = swap_bytes(@),
                                           !.tm = swap_bytes(@),
                                           !.th = swap_bytes(@)]))

\* A serialization that writes the native record's bytes.
UuidSerializeNative(u) ==
    [kind |-> MP_UUID, bytes |-> TransmuteToBytes(to_tt_uuid(u))]

\* impl Serialize for Uuid: _ExtStruct((MP_UUID, as_bytes)).
UuidSerialize(u) == [kind |-> MP_UUID, bytes |-> as_bytes(u)]

\* A length test that lets longer payloads through.
LengthOkAtLeast(bytes) == Len(bytes) >= UuidLen

\* Self::try_from_slice(&data) is Some
LengthOk(bytes) == try_from_slice(bytes).some

\* impl Deserialize for Uuid: the tag is tested first, then the length.
UuidDeserialize(ext) ==
    IF ext.kind # MP_UUID
    THEN [ok |-> FALSE, u |-> <<>>, err |-> "Expected UUID",
          found |-> ext.kind, expected |-> 0, got |-> 0]
    ELSE IF LengthOk(ext.bytes)
         THEN [ok |-> TRUE, u |-> from_bytes(ext.bytes), err |-> "",
               found |-> ext.kind, expected |-> 0, got |-> 0]
         ELSE [ok |-> FALSE, u |-> <<>>, err |-> "Not enough bytes for UUID",
               found |-> ext.kind, expected |-> UuidLen, got |-> Len(ext.bytes)]

UuidRet(op, kind, data, prev, orig) ==
    [op |-> op, kind |-> kind, val |-> NoHost, n |-> 0, h |-> LuaRef,
     data |-> data, prev |-> prev, orig |-> orig]

None == <<>>

\* Uuid::from_bytes on an input
FromBytes(bytes) ==
    /\ bytes \in UuidInputs
    /\ ret' = UuidRet("from_bytes", "Uuid", from_bytes(bytes), None, None)
    /\ pops' = <<>>
    /\ UNCHANGED <<stack, globals, guards, frames, owed, lastset, life, absidx, ctid>>

\* A native record handed over by the runtime.
TtUuidInput(bytes) ==
    /\ bytes \in UuidInputs
    /\ ret' = UuidRet("tt_uuid", "tt_uuid", TransmuteToTt(bytes), None, None)
    /\ pops' = <<>>
    /\ UNCHANGED <<stack, globals, guards, frames, owed, lastset, life, absidx, ctid>>

\* A payload received from the wire.
ExtInput(kind, bytes) ==
    /\ kind \in ExtKinds
    /\ bytes \in SliceInputs
    /\ ret' = UuidRet("ext", "ext", [kind |-> kind, bytes |-> bytes], None, None)
    /\ pops' = <<>>
    /\ UNCHANGED <<stack, globals, guards, frames, owed, lastset, life, absidx, ctid>>

\* to_tt_uuid of the Uuid last produced
ToTtUuid ==
    /\ ret.kind = "Uuid"
    /\ ret' = UuidRet("to_tt_uuid", "tt_uuid", to_tt_uuid(ret.data), ret.data,
                      ret.prev)
    /\ pops' = <<>>
    /\ UNCHANGED <<stack, globals, guards, frames, owed, lastset, life, absidx, ctid>>

\* from_tt_uuid of the native record last produced
FromTtUuid ==
    /\ ret.kind = "tt_uuid"
    /\ ret' = UuidRet("from_tt_uuid", "Uuid", from_tt_uuid(ret.data), ret.data,
                      ret.prev)
    /\ pops' = <<>>
    /\ UNCHANGED <<stack, globals, guards, frames, owed, lastset, life, absidx, ctid>>

\* serialize of the Uuid last produced
Serialize ==
    /\ ret.kind = "Uuid"
    /\ ret' = UuidRet("serialize", "ext", UuidSerialize(ret.data), ret.data,
                      ret.prev)
    /\ pops' = <<>>
    /\ UNCHANGED <<stack, globals, guards, frames, owed, lastset, life, absidx, ctid>>

\* deserialize of the payload last produced or received
Deserialize ==
    /\ ret.kind = "ext"
    /\ LET r == UuidDeserialize(ret.data)
       IN ret' = IF r.ok
                 THEN UuidRet("deserialize", "Uuid", r.u, ret.data, ret.prev)
                 ELSE [UuidRet("deserialize", "Err", None, ret.data, ret.prev)
                         EXCEPT !.val = HostStr(<<>>)]
                        @@ [err |-> r.err, found |-> r.found,
                            expected |-> r.expected, got |-> r.got]
    /\ pops' = <<>>
    /\ UNCHANGED <<stack, globals, guards, frames, owed, lastset, life, absidx, ctid>>

\* try_from_slice of the bytes of the payload last received
TryFromSlice ==
    /\ ret.kind = "ext"
    /\ LET r == try_from_slice(ret.data.bytes)
       IN ret' = UuidRet("try_from_slice", IF r.some THEN "Uuid" ELSE "None",
                         r.u, ret.data.bytes, None)
    /\ pops' = <<>>
    /\ UNCHANGED <<stack, globals, guards, frames, owed, lastset, life, absidx, ctid>>

\* Any sequence of the safe operations on one context.
Next ==
    \/ \E h \in Handles : PushNil(h)
    \/ \E h \in Handles, idx \in {-2, -1, 1} : ReadNil(h, idx)
    \/ \E g \in Live : IntoInner(g)
    \/ \E g \in Live : DropGuard(g)
    \/ \E name \in Names, ty \in FewTypes : Get(name, ty)
    \/ Set(NameA, Host("i32", 12))
    \/ CheckedSet(NameA, Host("i32", 12))
    \/ guards = <<>> /\ EmptyArray(NameA)
    \/ GlobalsTable

Spec == Init /\ [][Next]_vars

\* Any sequence of the guard operations, the unsafe ones included.
NextGuard ==
    \/ \E h \in Handles : PushNil(h)
    \/ \E h \in Handles, idx \in {-2, -1, 1} : ReadNil(h, idx)
    \/ \E n \in 0..MaxOwed : NewGuard(LuaRef, n)
    \/ \E g \in Live : Size(g)
    \/ \E g \in Live : Forget(g)
    \/ \E g \in Live : IntoInner(g)
    \/ \E g \in Live : DropGuard(g)
    \/ \E n \in 1..MaxOwed : CallerPop(n)
    \/ guards = <<>> /\ GlobalsTable

SpecGuard == Init /\ [][NextGuard]_vars

\* Reads and writes of globals with every name, value and requested type.
NextGlobals ==
    \/ \E name \in Names, ty \in ReadTypes : Get(name, ty)
    \/ \E name \in Names, hv \in HostVals : Set(name, hv)
    \/ \E name \in Names, hv \in HostVals : CheckedSet(name, hv)
    \/ GlobalsTable
    \/ \E g \in Live, name \in Names, hv \in Scalars : TableSet(g, name, hv)
    \/ \E g \in Live : DropGuard(g)

SpecGlobals == Init /\ [][NextGlobals]_vars

\* Chunks executed between reads and writes of the global "a".
NextExec ==
    \/ \E chunk \in Chunks, ty \in ExecTypes : Execute(chunk, ty)
    \/ OpenBase
    \/ Set(NameA, Host("i32", 12))
    \/ CheckedSet(NameA, Host("bool", 1))
    \/ \E ty \in FewTypes : Get(NameA, ty)
    \/ \E h \in Handles : PushNil(h)
    \/ \E g \in Live : DropGuard(g)

SpecExec == Init /\ [][NextExec]_vars

\* Writes of globals with values whose push succeeds, fails or breaks the
\* one-slot contract.
NextSet ==
    \/ \E name \in Names, hv \in {Host("i32", 5), FailVal, PairVal} :
          CheckedSet(name, hv)
    \/ \E hv \in {Host("bool", 1), PairVal} : Set(NameA, hv)
    \/ \E ty \in {"i32", "bool"} : Get(NameA, ty)
    \/ PushNil(LuaRef)
    \/ \E g \in Live : DropGuard(g)

SpecSet == Init /\ [][NextSet]_vars

\* Pushes of values of several kinds and reads of several types at the
\* same positions, index 0 included.
\* The interpreter itself and the guards that can be given by value.
OwnedHandles == {x \in Handles : x = LuaRef \/ ~x.ref}

\* Conversions of Uuid values, each applied to what the one before produced.
NextUuid ==
    \/ \E bytes \in UuidInputs : FromBytes(bytes)
    \/ \E bytes \in UuidInputs : TtUuidInput(bytes)
    \/ \E kind \in ExtKinds, bytes \in SliceInputs : ExtInput(kind, bytes)
    \/ ToTtUuid
    \/ FromTtUuid
    \/ Serialize
    \/ Deserialize
    \/ TryFromSlice

SpecUuid == Init /\ [][NextUuid]_vars

\* A host closure stored in a global and called from executed chunks.
NextClosure ==
    \/ \E chunk \in ClosureChunks \cup {ChAssign}, ty \in ExecTypes :
          Execute(chunk, ty)
    \/ \E hv \in {ClosureVal, Host("i32", 12)} : Set(NameA, hv)
    \/ \E ty \in FewTypes : Get(NameA, ty)
    \/ PushNil(LuaRef)
    \/ \E g \in Live : DropGuard(g)

SpecClosure == Init /\ [][NextClosure]_vars

NextTuple ==
    \/ \E h \in Handles, es \in Tuples : TuplePush(h, es)
    \/ \E hv \in {Host("i32", 12), Host("bool", 1), FailVal} : TryPush(LuaRef, hv)
    \/ PushNil(LuaRef)
    \/ \E g \in Live : DropGuard(g)

SpecTuple == Init /\ [][NextTuple]_vars

\* empty_array with every name, between writes, reads and drops.
NextArray ==
    \/ \E name \in Names : EmptyArray(name)
    \/ \E name \in Names : Get(name, "LuaTable")
    \/ Set(NameA, Host("i32", 12))
    \/ \E g \in Live : DropGuard(g)

SpecArray == Init /\ [][NextArray]_vars

NextTypename ==
    \/ \E ty \in {"i32", "String"}, n \in 1..MaxStack : WrongType(ty, n)
    \/ \E hv \in {Host("bool", 1), Host("Uuid", 1)} : TryPush(LuaRef, hv)
    \/ PushNil(LuaRef)
    \/ \E g \in Live : DropGuard(g)

SpecTypename == Init /\ [][NextTypename]_vars

NextIndex ==
    \/ \E i \in {-3, -2, -1, 1, 2, LUA_REGISTRYINDEX} : AbsoluteIndexNew(i)
    \/ PushNil(LuaRef)
    \/ \E g \in Live : DropGuard(g)
    \/ \E args \in {<<>>, <<Val("number", 5)>>} : EnterCallback(args)
    \/ ReturnCallback

SpecIndex == Init /\ [][NextIndex]_vars

NextLife ==
    \/ \E p \in {Null, Len(life.states) + 1} : LuaNew(p)
    \/ \E p \in 1..Len(life.states), c \in BOOLEAN : FromExistingState(p, c)
    \/ \E i \in 1..Len(life.luas) : DropLua(i)
    \/ Get(NameA, "i32")

SpecLife == Init /\ [][NextLife]_vars

NextRead ==
    \/ \E h \in OwnedHandles : TryPush(h, Host("Uuid", 1))
    \/ \E hv \in {Host("OtherCData", 1), FailVal} : TryPush(LuaRef, hv)
    \/ PushNil(LuaRef)
    \/ \E h \in OwnedHandles, ty \in {"Uuid", "Nil"}, idx \in {-1, 0, 1} :
          ReadAt(h, ty, idx)
    \/ \E g \in Live : DropGuard(g)

SpecRead == Init /\ [][NextRead]_vars

\* Guards created and destroyed in LIFO order, across reentrant callbacks.
IsTop(g) == g = Len(guards)

NextNested ==
    \/ \E h \in Handles : (h.ref \/ IsTop(h.to)) /\ PushNil(h)
    \/ \E h \in Handles, idx \in {-2, -1, 1} : h.ref /\ ReadNil(h, idx)
    \/ \E g \in Live, idx \in {-2, -1, 1} : IsTop(g) /\ ReadNil(Hnd(FALSE, g), idx)
    \/ \E g \in Live : IsTop(g) /\ IntoInner(g)
    \/ \E g \in Live : IsTop(g) /\ DropGuard(g)
    \/ \E name \in Names, ty \in FewTypes : Get(name, ty)
    \/ Set(NameA, Host("i32", 12))
    \/ EmptyArray(NameA)
    \/ GlobalsTable
    \/ \E args \in {<<>>, <<Val("number", 5)>>} : EnterCallback(args)
    \/ ReturnCallback

SpecNested == Init /\ [][NextNested]_vars

\* ------------------------------------------------------------------------
\* Properties
\* ------------------------------------------------------------------------

\* C1 (Spec): stack balance.  After any sequence of get, set, checked_set,
\* empty_array, globals_table, Nil pushes and reads, once every guard the
\* sequence produced has been dropped or consumed by into_inner, the stack
\* height equals the height before the sequence.
C1_StackBalance == guards = <<>> => Len(stack) = frames[1].entry

\* A guard was just destroyed with a pop, none is left, a global was written
\* on the way, and the height is the initial one.
C1_Witness ==
    /\ guards = <<>>
    /\ ret.op \in {"drop", "into_inner"}
    /\ pops # <<>>
    /\ globals[NameA] # NilV
    /\ Len(stack) = frames[1].entry

\* C2 (SpecGuard): dropping a guard that still has count n > 0 issues exactly
\* one lua_pop with argument n and lowers the height by exactly n; dropping a
\* guard of count 0 issues no pop.  A guard that owns another guard as its
\* handle destroys it too, and the same holds for each guard destroyed.
C2_DropPopsOnce ==
    [][\A g \in Live : DropGuard(g) =>
          LET ids == Chain(guards, g)
              sz == [i \in 1..Len(ids) |-> guards[ids[i]].size]
          IN /\ pops' = SelectSeq(sz, LAMBDA x : x # 0)
             /\ Len(stack') = Len(stack) - SeqSum(sz)
             /\ (Len(ids) = 1 /\ guards[g].size = 0 => pops' = <<>>)
             /\ (Len(ids) = 1 /\ guards[g].size > 0 => pops' = <<guards[g].size>>)]_vars

\* A guard of positive count was just dropped with one pop of that count.
C2_Witness == ret.op = "drop" /\ ret.n > 0 /\ ret.h.ref /\ pops = <<ret.n>>

\* C3 (SpecGuard): forget on a guard of count n returns n and pops nothing:
\* neither the call nor the guard's destruction issues a pop, and the stack is
\* what it was.  Refuted by a guard whose handle is an armed guard held by
\* value: that handle is destroyed at the end of forget_internal and pops.
C3_ForgetPopsNothing ==
    [][\A g \in Live : Forget(g) =>
          /\ ret'.n = guards[g].size
          /\ pops' = <<>>
          /\ stack' = stack]_vars

\* C4 (SpecGuard): into_inner on a guard of count n pops the n slots exactly
\* once (no pop when n = 0), destroys only that guard, and gives back the
\* wrapped handle untouched: a guard that was the handle is still alive with
\* its count.
C4_IntoInnerPopsOnce ==
    [][\A g \in Live : IntoInner(g) =>
          LET n == guards[g].size
              inner == guards[g].h.to
          IN /\ pops' = IF n # 0 THEN <<n>> ELSE <<>>
             /\ Len(stack') = Len(stack) - n
             /\ Len(guards') = Len(guards) - 1
             /\ (inner # 0 => /\ inner \in 1..Len(guards')
                              /\ guards'[inner].size = guards[inner].size
                              /\ guards'[inner].base = guards[inner].base)]_vars

\* into_inner just popped an armed guard whose handle was a guard held by
\* value, and that guard is alive.
C4_Witness ==
    /\ ret.op = "into_inner"
    /\ ret.n > 0
    /\ pops = <<ret.n>>
    /\ ~ret.h.ref
    /\ ret.h.to \in Live
    /\ guards[ret.h.to].size > 0

\* C5 (SpecGuard): PushGuard::new(handle, n) leaves the stack as it is and
\* records n; size() on a guard returns the n it was created with and leaves
\* the stack as it is.
C5_NewOnlyRecords ==
    [][/\ \A n \in 0..MaxOwed : NewGuard(LuaRef, n) =>
             /\ stack' = stack
             /\ pops' = <<>>
             /\ Len(guards') = Len(guards) + 1
             /\ guards'[Len(guards')].size = n
       /\ \A g \in Live : Size(g) =>
             /\ ret'.n = guards[g].pushed
             /\ stack' = stack
             /\ guards' = guards]_vars

\* A guard was just created over a slot that was already on the stack.
C5_Witness ==
    /\ ret.op = "new"
    /\ ret.n > 0
    /\ guards # <<>>
    /\ guards[Len(guards)].size = ret.n
    /\ guards[Len(guards)].base + ret.n = Len(stack)

\* C6 (SpecGuard): nested composition.  Forgetting an inner guard created over
\* a borrow of an outer guard pops nothing and leaves the outer count as it
\* was; dropping the outer guard right after pops exactly the outer count m,
\* not m + k.
C6_NestedForgetThenDrop ==
    [][/\ \A i \in Live :
             (Forget(i) /\ guards[i].h.ref /\ guards[i].h.to # 0) =>
                /\ pops' = <<>>
                /\ stack' = stack
                /\ guards'[guards[i].h.to].size = guards[guards[i].h.to].size
       /\ \A o \in Live :
             (DropGuard(o) /\ ret.op = "forget" /\ ret.h = Hnd(TRUE, o)
                /\ guards[o].h.ref) =>
                /\ SeqSum(pops') = guards[o].size
                /\ Len(pops') <= 1
                /\ Len(stack') = Len(stack) - guards[o].size]_vars

\* The outer guard was just dropped right after the forget of an inner guard
\* of count k over a borrow of it: one pop of m, and k slots are still owed.
C6_Witness ==
    /\ ret.op = "drop"
    /\ ret.kind = "AfterForget"
    /\ ret.n > 0
    /\ pops = <<ret.n>>
    /\ owed > 0

\* C7 (SpecNested): when guards are created and destroyed in LIFO order, also
\* inside a callback re-entered from the interpreter, the destruction of
\* guards restores the height at the creation of the lowest guard destroyed
\* and leaves every slot of every guard still alive in place.
C7_LifoRestoresHeight ==
    [][Len(guards') < Len(guards) =>
          LET gone == (Len(guards') + 1)..Len(guards)
              low == CHOOSE g \in gone :
                        \A x \in gone : guards[g].base <= guards[x].base
          IN /\ Len(stack') = guards[low].base
             /\ \A x \in 1..Len(guards') :
                   /\ guards'[x].size = guards[x].size
                   /\ guards'[x].base = guards[x].base
                   /\ guards[x].base + guards[x].size <= Len(stack')
                   /\ \A p \in (guards[x].base + 1)..(guards[x].base + guards[x].size) :
                         stack'[p] = stack[p]]_vars

\* Inside a callback a guard was just dropped with a pop while a guard of the
\* outer frame is alive below it.
C7_Witness ==
    /\ Depth = 2
    /\ ret.op = "drop"
    /\ pops # <<>>
    /\ \E x \in Live : guards[x].depth = 1 /\ guards[x].size > 0

\* C8 (SpecGuard): in every reachable state the count of every live guard is
\* >= 0 and is the number of slots pushed by the operation that produced it;
\* the slots on the stack are those of the live guards plus those whose
\* popping a forget handed to the caller.
C8_CountIsSlotsPushed ==
    /\ \A g \in Live : guards[g].size >= 0 /\ guards[g].size = guards[g].pushed
    /\ Len(stack) = frames[1].entry + owed
                      + SeqSum([g \in 1..Len(guards) |-> guards[g].size])

\* A forget just handed slots to the caller while an armed guard is alive.
C8_Witness ==
    /\ ret.op = "forget"
    /\ owed > 0
    /\ \E g \in Live : guards[g].size > 0

\* C9 (SpecGlobals): get returns None when the global is nil and when it does
\* not decode as the requested type, and leaves the stack height as it was.
\* Refuted by a name with an interior NUL byte: the call panics instead.
C9_GetNoneBalanced ==
    [][\A name \in Names, ty \in ReadTypes :
          (Get(name, ty) /\ (globals[name] = NilV \/ ~Decodes(ty, globals[name])))
             => /\ ret'.kind = "None"
                /\ Len(stack') = Len(stack)]_vars

\* C10 (SpecGlobals): for every scalar or text value v and every name, a get
\* of v's type after set(name, v), checked_set(name, v) or a set through the
\* globals table returns Some(v), v being the latest value written to name.
\* Refuted by a name with an interior NUL byte: set stores v, get panics.
C10_SetGetRoundTrip ==
    [][\A name \in Names, ty \in ReadTypes :
          (Get(name, ty) /\ lastset[name] \in Scalars /\ lastset[name].ty = ty)
             => /\ ret'.kind = "Some"
                /\ ret'.val = lastset[name]]_vars

\* C11 (SpecExec): globals persist across operations.  After an executed
\* chunk assigned 12 * 5 to "a", a later get of "a" returns Some(60); after
\* set wrote 12 to "a", a later executed "return a / 2" returns 6; in general
\* the chunk returns half of the latest integer written to "a", whatever
\* other execute, set and get calls came in between.
C11_GlobalsPersist ==
    [][/\ (Get(NameA, "i32") /\ lastset[NameA] = Host("i32", 60)) =>
             /\ ret'.kind = "Some"
             /\ ret'.val = Host("i32", 60)
       /\ (Execute(ChHalf, "i32") /\ lastset[NameA] = Host("i32", 12)) =>
             /\ ret'.kind = "Ok"
             /\ ret'.val = Host("i32", 6)
       /\ (Execute(ChHalf, "i32") /\ lastset[NameA].ty = "i32") =>
             /\ ret'.kind = "Ok"
             /\ ret'.val = Host("i32", lastset[NameA].v \div 2)]_vars

\* A get just returned the 60 an executed chunk had assigned.
C11_Witness ==
    /\ ret.op = "get"
    /\ ret.kind = "Some"
    /\ ret.val = Host("i32", 60)
    /\ lastset[NameA] = Host("i32", 60)

\* C12 (SpecSet): when the push of the value fails inside checked_set, the
\* call returns Err, the globals table and the key it had pushed are popped
\* by one lua_pop(2) so the stack is what it was before the call,
\* lua_settable does not run and every global keeps its value.
C12_CheckedSetPushFails ==
    [][\A name \in Names : CheckedSet(name, FailVal) =>
          /\ ret'.kind = "Err"
          /\ pops' = <<2>>
          /\ stack' = stack
          /\ globals' = globals]_vars

\* checked_set just returned Err while "a" holds a value written earlier.
C12_Witness ==
    /\ ret.op = "checked_set"
    /\ ret.kind = "Err"
    /\ pops = <<2>>
    /\ globals[NameA] # NilV

\* C13 (SpecSet): the one-slot contract is checked at run time.  A value
\* whose push yields a guard of a count other than 1 makes checked_set and
\* set panic on the assertion before lua_settable runs: no global is
\* assigned.
C13_PushOneAsserted ==
    [][\A name \in Names :
          (CheckedSet(name, PairVal) \/ Set(name, PairVal)) =>
             /\ ret'.kind = "panic"
             /\ globals' = globals
             /\ lastset' = lastset]_vars

\* set just panicked on a two-slot value and "a" still holds the value
\* written before.
C13_Witness ==
    /\ ret.op = "set"
    /\ ret.kind = "panic"
    /\ globals[NameA] = Val("boolean", 1)

C15_OpenBaseThenSucceeds ==
    [][/\ \A ty \in ExecTypes : Execute(ChAssert, ty) =>
             /\ (globals[NameAssert] = NilV => ret'.kind = "ExecutionError")
             /\ (globals[NameAssert] = FunctionV /\ ty = "bool" =>
                    ret'.kind = "Ok" /\ ret'.val = Host("bool", 1))
       /\ (OpenBase => globals'[NameAssert] = FunctionV)
       /\ (globals[NameAssert] = FunctionV => globals'[NameAssert] = FunctionV)]_vars

\* The chunk just returned true on a context with the base library open.
C15_Witness ==
    /\ ret.op = "execute"
    /\ ret.kind = "Ok"
    /\ ret.val = Host("bool", 1)
    /\ globals[NameAssert] = FunctionV

\* C16 (SpecRead): for a type that keeps the default
\* lua_read_at_maybe_zero_position, read_at with index 0 returns Err with the
\* handle it was given, without a call of lua_read_at_position and without
\* touching the stack; with a nonzero index it makes that call once and
\* returns what it returns for that index.
C16_IndexZeroIsErr ==
    [][\A h \in Handles, ty \in {"Uuid"}, idx \in {-1, 0, 1} :
          /\ ret'.op = "read_at"
          /\ ret'.ty = ty
          /\ ret'.at = idx
          /\ ReadAt(h, ty, idx)
          =>
             /\ (idx = 0 => /\ ret'.kind = "Err"
                            /\ ret'.h = h
                            /\ ret'.n = 0
                            /\ stack' = stack
                            /\ guards' = guards
                            /\ pops' = <<>>)
             /\ (idx # 0 => /\ ret'.n = 1
                            /\ (ret'.kind = "Ok") = LuaReadAtPosition(ty, stack, idx))]_vars

\* A read at index 0 just failed although the top slot holds a value of the
\* requested type.
C16_Witness ==
    /\ ret.op = "read_at"
    /\ ret.kind = "Err"
    /\ ret.n = 0
    /\ UuidLuaReadAtPosition(stack, -1)

SoleOwner ==
    \A p \in 1..Len(life.states) :
       Cardinality({i \in 1..Len(life.luas) :
                      life.luas[i].lua = p /\ life.luas[i].must_be_closed}) <= 1

\* C18 (SpecLife), with the precondition that from_existing_state is given
\* close_at_the_end = true only for a state no other Lua closes: lua_close
\* is called at most once on every interpreter state, and on a state
\* created by Lua::new exactly once, at the drop of that Lua.
C18_ClosedOnceByOwner ==
    SoleOwner =>
       /\ \A p \in 1..Len(life.states) : life.states[p].closes <= 1
       /\ \A i \in 1..Len(life.luas) :
             life.luas[i].by = "new" =>
                life.states[life.luas[i].lua].closes
                   = IF life.luas[i].alive THEN 0 ELSE 1

\* A Lua made by Lua::new was dropped and its state closed once, while a Lua
\* wrapping the same state without owning it exists.
C18_Witness ==
    /\ SoleOwner
    /\ \E i, j \in 1..Len(life.luas) :
          /\ life.luas[i].by = "new"
          /\ ~life.luas[i].alive
          /\ life.states[life.luas[i].lua].closes = 1
          /\ life.luas[j].by = "existing"
          /\ life.luas[j].lua = life.luas[i].lua

\* C18 as stated, over any sequence of Lua::new, from_existing_state and
\* drops: lua_close is called at most once on every interpreter state.
C18_ClosedAtMostOnce ==
    \A p \in 1..Len(life.states) : life.states[p].closes <= 1

\* C19 (SpecLife): the drop of a Lua built with close_at_the_end = false
\* closes nothing, the drop of one built with true calls lua_close once on
\* its state, no other operation calls lua_close, and no operation changes
\* the pointer or the must_be_closed flag of a Lua value.
C19_CloseFollowsFlag ==
    [][/\ \A i \in 1..Len(life.luas) :
             /\ life'.luas[i].must_be_closed = life.luas[i].must_be_closed
             /\ life'.luas[i].lua = life.luas[i].lua
             /\ DropLua(i) =>
                   \A p \in 1..Len(life.states) :
                      life'.states[p].closes =
                         life.states[p].closes
                           + (IF life.luas[i].must_be_closed
                                 /\ life.luas[i].lua = p THEN 1 ELSE 0)
       /\ (ret'.op # "drop_lua" =>
              \A p \in 1..Len(life.states) :
                 life'.states[p].closes = life.states[p].closes)]_vars

\* A Lua built by from_existing_state(ptr, false) was dropped and ptr was
\* never closed, and one built with true was dropped and its state closed.
C19_Witness ==
    \E i, j \in 1..Len(life.luas) :
       /\ life.luas[i].by = "existing"
       /\ ~life.luas[i].must_be_closed
       /\ ~life.luas[i].alive
       /\ life.states[life.luas[i].lua].closes = 0
       /\ life.luas[j].by = "existing"
       /\ life.luas[j].must_be_closed
       /\ ~life.luas[j].alive
       /\ life.states[life.luas[j].lua].closes = 1

\* C20 (SpecLife): when luaL_newstate returns null, Lua::new panics, builds
\* no Lua value and does not call lua_atpanic; no Lua made by Lua::new holds
\* a null pointer and lua_atpanic is never called on null.
C20_NullStateIsFatal ==
    /\ [](/\ Null \notin life.atpanic
          /\ \A i \in 1..Len(life.luas) :
                life.luas[i].by = "new" => life.luas[i].lua # Null)
    /\ [][LuaNew(Null) => ret'.kind = "panic" /\ life' = life]_vars

\* An allocation just failed and Lua::new panicked, after an earlier
\* Lua::new had succeeded.
C20_Witness ==
    /\ ret.op = "new"
    /\ ret.kind = "panic"
    /\ \E i \in 1..Len(life.luas) : life.luas[i].by = "new"

\* C21 (SpecIndex): at stack height top, AbsoluteIndex::new stores
\* top + i + 1 for a relative index i with -top <= i <= -1, which denotes the
\* slot i denotes (-1 gives top), and stores i itself for an index that is
\* not relative; the stored number is not recomputed when the height
\* changes afterwards.
C21_AbsoluteIndexSnapshot ==
    [][/\ \A i \in {-3, -2, -1, 1, 2, LUA_REGISTRYINDEX} :
             AbsoluteIndexNew(i) =>
                LET top == lua_gettop(stack)
                IN /\ (-top <= i /\ i <= -1 =>
                         /\ absidx'.v = top + i + 1
                         /\ AbsPos(stack, absidx'.v) = AbsPos(stack, i)
                         /\ (i = -1 => absidx'.v = top))
                   /\ (i > 0 \/ i <= LUA_REGISTRYINDEX => absidx'.v = i)
       /\ (ret'.op # "absolute_index" => absidx' = absidx)]_vars

\* An AbsoluteIndex made from a relative index is held while the height
\* differs from the height it was made at.
C21_Witness ==
    /\ absidx.of \in {-2, -1}
    /\ absidx.v = absidx.top + absidx.of + 1
    /\ lua_gettop(stack) # absidx.top
    /\ ret.op # "absolute_index"

\* C22 (SpecTypename): LuaError::wrong_type::<T>(lua, n) gives WrongType
\* with rust_expected the name of T and lua_actual the text of
\* lua_typename(lua, n): for n = 1 the type name of the top slot alone, for
\* n >= 2 "(", then exactly n type names, those of the top n slots, with
\* ", " between them, then ")"; the stack is left as it was.
C22_WrongTypeNames ==
    [][\A ty \in {"i32", "String"}, n \in 1..MaxStack :
          WrongType(ty, n) =>
             LET a == ret'.lua_actual
             IN /\ ret'.kind = "WrongType"
                /\ ret'.rust_expected = ty
                /\ stack' = stack
                /\ pops' = <<>>
                /\ (n = 1 => a = <<TypeName(stack[Len(stack)].t)>>)
                /\ (n >= 2 =>
                      /\ Len(a) = 2 * n + 1
                      /\ a[1] = "("
                      /\ a[2 * n + 1] = ")"
                      /\ \A k \in 1..(n - 1) : a[2 * k + 1] = ", "
                      /\ \A name \in {a[2 * k] : k \in 1..n}
                                    \cup {stack[Len(stack) - k + 1].t : k \in 1..n} :
                            Cardinality({k \in 1..n : a[2 * k] = name})
                              = Cardinality({k \in 1..n :
                                   stack[Len(stack) - k + 1].t = name}))]_vars

\* wrong_type was just computed over two slots of different types, a
\* boolean on top.
C22_Witness ==
    /\ ret.op = "wrong_type"
    /\ ret.n = 2
    /\ Len(stack) >= 2
    /\ stack[Len(stack)].t = "boolean"
    /\ stack[Len(stack) - 1].t # "boolean"
    /\ ret.lua_actual[2] = "boolean"

\* C23 (SpecArray): empty_array(name) never panics, replaces whatever the
\* global held with a new empty table, and returns a live handle to that
\* table which keeps exactly one slot, the table, on the stack.  Refuted by a
\* name with an interior NUL byte: the table is stored and the call panics.
C23_EmptyArrayLive ==
    [][\A name \in Names :
          EmptyArray(name) =>
             /\ ret'.kind = "Ok"
             /\ globals'[name].t = "table"
             /\ globals'[name].v \notin TableIds(stack, globals)
             /\ stack' = Append(stack, globals'[name])
             /\ Len(guards') = Len(guards) + 1
             /\ guards'[Len(guards')].size = 1]_vars

\* The slots the push of one value leaves, and those of a sequence of values
\* pushed left to right.
SlotsOf(hv) == PushVal(Mach(<<>>, <<>>), hv).m.st
RECURSIVE SlotsOfAll(_)
SlotsOfAll(es) == IF es = <<>> THEN <<>> ELSE SlotsOf(Head(es)) \o SlotsOfAll(Tail(es))

\* C24 (SpecTuple): a tuple push leaves its elements' slots in left to
\* right order under one guard whose count is the sum of the elements' slot
\* counts; when the push of element k fails the slots of elements 1..k-1 are
\* popped, the height is the height before the push and the error carries
\* the handle.
C24_TuplePushAllOrNothing ==
    [][\A h \in Handles, es \in Tuples :
          TuplePush(h, es) =>
             IF \A k \in 1..Len(es) : es[k] # FailVal
             THEN /\ ret'.kind = "Ok"
                  /\ stack' = stack \o SlotsOfAll(es)
                  /\ guards' = Append(guards, guards'[Len(guards')])
                  /\ guards'[Len(guards')].size = Len(SlotsOfAll(es))
                  /\ guards'[Len(guards')].h = h
                  /\ pops' = <<>>
             ELSE LET k == CHOOSE j \in 1..Len(es) :
                              es[j] = FailVal /\ \A i \in 1..(j - 1) : es[i] # FailVal
                      before == Len(SlotsOfAll(SubSeq(es, 1, k - 1)))
                  IN /\ ret'.kind = "Err"
                     /\ ret'.h = h
                     /\ stack' = stack
                     /\ guards' = guards
                     /\ pops' = IF before = 0 THEN <<>> ELSE <<before>>]_vars

\* The third element of a tuple just failed after three slots had been
\* pushed, and they were popped.
C24_Witness ==
    /\ ret.op = "push_tuple"
    /\ ret.kind = "Err"
    /\ pops = <<3>>

\* Whether the byte string s contains the byte string sub.
Contains(s, sub) ==
    \E i \in 0..(Len(s) - Len(sub)) : SubSeq(s, i + 1, i + Len(sub)) = sub

\* C25 (SpecClosure): a host closure called from a chunk does not return
\* normally when it fails.  An argument that does not decode as the declared
\* type makes execute end in ExecutionError with a text naming the expected
\* and the actual type; a closure result that is an error makes execute end
\* in ExecutionError; a well-typed argument and an Ok result give the
\* closure's value.  The stack is left as it was in every case.
C25_ClosureFailureRaises ==
    [][\A chunk \in ClosureChunks, ty \in ExecTypes :
          (Execute(chunk, ty) /\ globals[NameA] = Encode(ClosureVal)) =>
             /\ (chunk = ChCallWrong =>
                    /\ ret'.kind = "ExecutionError"
                    /\ Contains(ret'.val.s, RustNameI32)
                    /\ Contains(ret'.val.s, TypeNameBytes("boolean")))
             /\ (chunk = ChCallErr => ret'.kind = "ExecutionError")
             /\ (chunk = ChCallOk /\ ty = "i32" =>
                    ret'.kind = "Ok" /\ ret'.val = Host("i32", 6))
             /\ stack' = stack]_vars

\* The closure was just called with a boolean and execute ended in
\* ExecutionError, while a guard is alive.
C25_Witness ==
    /\ ret.op = "execute"
    /\ ret.kind = "ExecutionError"
    /\ globals[NameA] = Encode(ClosureVal)
    /\ Contains(ret.val.s, TypeNameBytes("boolean"))
    /\ guards # <<>>

\* C26 (SpecUuid): deserialization accepts a payload iff its tag is MP_UUID
\* and it carries exactly 16 bytes; any other tag is an error, whatever the
\* length; a length other than 16, shorter or longer, is an error that states
\* the expected length 16 and the actual length; try_from_slice is Some iff
\* the slice has exactly 16 bytes.
C26_DeserializeAccepts ==
    [][/\ Deserialize =>
             LET ext == ret.data
             IN /\ (ret'.kind = "Uuid") =
                      (ext.kind = MP_UUID /\ Len(ext.bytes) = UuidLen)
                /\ (ret'.kind = "Uuid" => ret'.data = ext.bytes)
                /\ (ext.kind # MP_UUID =>
                      /\ ret'.kind = "Err"
                      /\ ret'.err = "Expected UUID"
                      /\ ret'.found = ext.kind)
                /\ (ext.kind = MP_UUID /\ Len(ext.bytes) # UuidLen =>
                      /\ ret'.kind = "Err"
                      /\ ret'.err = "Not enough bytes for UUID"
                      /\ ret'.expected = UuidLen
                      /\ ret'.got = Len(ext.bytes))
       /\ TryFromSlice =>
             (ret'.kind = "Uuid") = (Len(ret.data.bytes) = UuidLen)]_vars

\* A payload tagged MP_UUID with 17 bytes was just rejected.
C26_Witness ==
    /\ ret.op = "deserialize"
    /\ ret.kind = "Err"
    /\ ret.prev.kind = MP_UUID
    /\ ret.got = UuidLen + 1

\* The bytes of a value with tl, tm and th each reversed and the last 8
\* bytes in place.
ThreeFieldsSwapped(b) ==
    <<b[4], b[3], b[2], b[1], b[6], b[5], b[8], b[7]>> \o SubSeq(b, 9, 16)

\* C27 (SpecUuid): from_tt_uuid(to_tt_uuid(u)) = u for every Uuid u and
\* to_tt_uuid(from_tt_uuid(t)) = t for every native record t; each conversion
\* reverses the bytes of tl (4 bytes), tm (2) and th (2) and leaves the other
\* 8 bytes in place.
C27_NativeRoundTrip ==
    [][/\ (FromTtUuid /\ ret.op = "to_tt_uuid" => ret'.data = ret.prev)
       /\ (ToTtUuid /\ ret.op = "from_tt_uuid" => ret'.data = ret.prev)
       /\ (ToTtUuid =>
             TransmuteToBytes(ret'.data) = ThreeFieldsSwapped(ret.data))
       /\ (FromTtUuid =>
             ret'.data = ThreeFieldsSwapped(TransmuteToBytes(ret.data)))]_vars

\* A Uuid that differs from its native record in tl, tm and th just came
\* back from to_tt_uuid and from_tt_uuid as itself.
C27_Witness ==
    /\ ret.op = "from_tt_uuid"
    /\ ret.prev.tl # SubSeq(ret.data, 1, 4)
    /\ ret.prev.tm # SubSeq(ret.data, 5, 6)
    /\ ret.prev.th # SubSeq(ret.data, 7, 8)
    /\ ret.orig = ret.data

\* C28 (SpecUuid): serializing a Uuid gives a structure of two elements, the
\* tag MP_UUID and exactly the 16 bytes of as_bytes, and deserializing what
\* serialize produced succeeds and gives the Uuid back.
C28_WireRoundTrip ==
    [][/\ (Serialize =>
             /\ DOMAIN ret'.data = {"kind", "bytes"}
             /\ ret'.data.kind = MP_UUID
             /\ Len(ret'.data.bytes) = UuidLen
             /\ ret'.data.bytes = ret.data)
       /\ (Deserialize /\ ret.op = "serialize" =>
             /\ ret'.kind = "Uuid"
             /\ ret'.data = ret.prev)]_vars

\* A Uuid whose native record has other bytes was just deserialized from
\* its own serialized form.
C28_Witness ==
    /\ ret.op = "deserialize"
    /\ ret.kind = "Uuid"
    /\ ret.orig = ret.data
    /\ TransmuteToBytes(to_tt_uuid(ret.data)) # ret.data

\* C29 (SpecGuard): forget never changes the stack height, also on a guard
\* that holds another guard by value: no pop is issued and the slots of
\* both guards stay.  Refuted: the destruction of the forgotten guard
\* destroys the guard it holds, which pops its own count.
C29_ForgetComposes ==
    [][\A g \in Live :
          (Forget(g) /\ ~guards[g].h.ref /\ guards[g].h.to # 0) =>
             /\ Len(stack') = Len(stack)
             /\ pops' = <<>>]_vars

\* The stack once the slots at the positions S are gone.
SlotsLeft(st, S) ==
    LET kept == SelectSeq([i \in 1..Len(st) |-> i], LAMBDA i : i \notin S)
    IN [k \in 1..Len(kept) |-> st[kept[k]]]

\* Every live guard is over a borrow of the context and its own slots are
\* where its push placed them: the guards' slots follow one another up to
\* the top of the stack.
OwnSlotsInPlace ==
    /\ \A x \in Live : guards[x].h = LuaRef /\ guards[x].size = guards[x].pushed
    /\ \A x \in Live :
          guards[x].base + guards[x].pushed
             = IF x = Len(guards) THEN Len(stack) ELSE guards[x + 1].base

\* C30 (Spec): while several guards over borrows of the context are alive,
\* the drop of any one of them removes exactly the slots its own push
\* placed and leaves the slots of the other guards in place.  Refuted by a
\* drop out of creation order: it pops the top slots, another guard's.
C30_DropRemovesOwnSlots ==
    [][\A g \in Live :
          (DropGuard(g) /\ OwnSlotsInPlace) =>
             stack' = SlotsLeft(stack, (guards[g].base + 1)
                                         ..(guards[g].base + guards[g].pushed))]_vars

\* C31 (SpecIndex): for a relative index i at stack height top,
\* AbsoluteIndex::new either stores a position r with 1 <= r <= top, or,
\* when i < -top, panics with "Invalid relative index".  Refuted by an
\* index two or more below the bottom (i < -top - 1): top + i + 1 is
\* negative, NonZeroI32::new accepts it, and a negative position is stored.
C31_RelativeIndexInRange ==
    [][\A i \in {-3, -2, -1} :
          AbsoluteIndexNew(i) =>
             LET top == lua_gettop(stack)
             IN \/ /\ ret'.kind = "Ok"
                   /\ 1 <= absidx'.v
                   /\ absidx'.v <= top
                \/ /\ i < -top
                   /\ ret'.kind = "panic"]_vars

\* C32 (SpecTypename): for n_values >= 2 the k-th name of the text
\* "(t1, ..., tn)" is the type of the slot at index -(n - k + 1), so that the
\* names follow the stack from the lowest of the top n slots to the top
\* slot, whose type comes last; for n_values = 1 the text is the type of
\* the top slot.  Refuted by two slots of different types: the loop starts
\* at index -1 and the type of the top slot comes first.
C32_NamesInStackOrder ==
    [][\A ty \in {"i32", "String"}, n \in 1..MaxStack :
          WrongType(ty, n) =>
             LET a == ret'.lua_actual
             IN /\ (n = 1 => a = <<TypeName(lua_type(stack, -1))>>)
                /\ (n >= 2 =>
                      /\ Len(a) = 2 * n + 1
                      /\ \A k \in 1..n :
                            a[2 * k] = TypeName(lua_type(stack, -(n - k + 1))))]_vars

\* C33 (SpecRead): a Nil read at a nonzero index is Ok(Nil) exactly when the
\* slot at that index is nil and is otherwise Err with the handle it was
\* given; a Nil read at index 0 is Ok(Nil) whatever the stack holds, without
\* a call of lua_read_at_position; a push of Nil is Ok, adds exactly one
\* slot, a nil, under a guard of count 1, and a Nil read of the top slot
\* right after it succeeds.
C33_NilReadAndPush ==
    [][/\ \A h \in Handles, idx \in {-1, 0, 1} :
             /\ ret'.op = "read_at"
             /\ ret'.ty = "Nil"
             /\ ret'.at = idx
             /\ ReadAt(h, "Nil", idx)
             =>
                /\ ret'.kind \in {"Ok", "Err"}
                /\ (idx # 0 => ((ret'.kind = "Ok") <=> lua_type(stack, idx) = "nil"))
                /\ (idx = 0 => ret'.kind = "Ok" /\ ret'.n = 0)
                /\ (ret'.kind = "Ok" => ret'.val = Host("Nil", 0))
                /\ (ret'.kind = "Err" => /\ ret'.h = h
                                         /\ stack' = stack
                                         /\ guards' = guards)
       /\ (ret'.op = "push_nil" /\ PushNil(LuaRef) =>
             /\ ret'.kind = "Ok"
             /\ stack' = Append(stack, NilV)
             /\ Len(guards') = Len(guards) + 1
             /\ PushGuardSize(guards'[Len(guards')]) = 1
             /\ NilLuaReadAtPosition(stack', -1)
             /\ NilLuaReadAtMaybeZeroPosition(stack', -1).ok)]_vars

\* A Nil read at index 0 has just returned Ok(Nil) while the top slot is not
\* nil, so that a read of the top slot would have failed.
C33_Witness ==
    /\ ret.op = "read_at"
    /\ ret.ty = "Nil"
    /\ ret.at = 0
    /\ ret.kind = "Ok"
    /\ Len(stack) > 0
    /\ ~NilLuaReadAtPosition(stack, -1)

\* C34 (SpecInto): Lua::into_get never loses the context.  When the global
\* is nil or does not decode as V, it returns Err(guard): the guard has
\* count 1, holds the context by value and covers the one slot lua_getglobal
\* pushed, the height is one above the height before the call, and the
\* context was not closed; into_inner on that guard brings the height back
\* and returns the context, not closed.  Refuted by a name with an interior
\* NUL byte: the name conversion panics and the unwinding drops the context.
C34_IntoGetKeepsContext ==
    [][/\ \A name \in Names, ty \in ReadTypes :
             (/\ IntoGet(name, ty)
              /\ \/ globals[name].t = "nil"
                 \/ ~Decodes(ty, globals[name]))
             =>
                /\ ret'.kind = "Err"
                /\ ret'.h = Hnd(FALSE, 1)
                /\ Len(guards') = 1
                /\ PushGuardSize(guards'[1]) = 1
                /\ guards'[1].h = Hnd(FALSE, 0)
                /\ guards'[1].base = Len(stack)
                /\ stack' = Append(stack, globals[name])
                /\ life' = life
       /\ \A g \in Live :
             (IntoInner(g) /\ guards[g].h = Hnd(FALSE, 0)) =>
                /\ Len(stack') = guards[g].base
                /\ ret'.h = Hnd(FALSE, 0)
                /\ ~LuaMoved'
                /\ life' = life]_vars

\* A step that calls ctid_uuid: a Uuid push, or a Uuid read of a cdata slot.
CtidStep ==
    /\ \/ \E r \in CtypeidResults : UuidPush(r)
       \/ \E idx \in {-1, 1}, r \in CtypeidResults : UuidRead(idx, r)
    /\ ret'.asked

\* C35 as stated (SpecCtid): over any sequence of Uuid pushes and reads,
\* luaL_ctypeid is called only by the first call of ctid_uuid, every call
\* of ctid_uuid returns the same value, that value is never 0, and 0 is
\* never cached.  Refuted by a first call that gets 0 from luaL_ctypeid:
\* nothing is cached, so the second call of ctid_uuid calls luaL_ctypeid
\* again.
C35_CtypeidOnlyFirstCall ==
    [][CtidStep =>
          /\ (ret'.called => ~ctid.asked)
          /\ (ret'.id # <<>> /\ ctid.returned # <<>> => ret'.id = ctid.returned)
          /\ ret'.id # <<Ct0>>
          /\ ctid'.CTID_UUID # <<Ct0>>]_vars

\* C35 as amended (SpecCtid): luaL_ctypeid is called only by calls of
\* ctid_uuid made before the first one that returned; every call that
\* returns gives the same value and that value is never 0; a 0 from
\* luaL_ctypeid fails the assertion and leaves CTID_UUID empty; once
\* CTID_UUID is set it is never written again.
C35_CtypeidUntilCached ==
    [][/\ CtidStep =>
             /\ (ret'.called => ctid.returned = <<>> /\ ctid.CTID_UUID = <<>>)
             /\ (ctid.CTID_UUID = <<>> => ret'.called)
             /\ (ret'.id # <<>> /\ ctid.returned # <<>> => ret'.id = ctid.returned)
             /\ ret'.id # <<Ct0>>
             /\ ctid'.CTID_UUID # <<Ct0>>
             /\ (ret'.kind = "panic" => ctid'.CTID_UUID = <<>>)
             /\ (ret'.kind # "panic" => ctid'.CTID_UUID = ret'.id)
       /\ (ctid.CTID_UUID # <<>> => ctid'.CTID_UUID = ctid.CTID_UUID)]_vars

\* A Uuid read of a cdata slot has just been answered from the cache: it
\* went through ctid_uuid, luaL_ctypeid was not called, and the id is the one
\* an earlier call returned.
C35_Witness ==
    /\ ret.op = "uuid_read"
    /\ ret.asked
    /\ ~ret.called
    /\ ret.id = <<CtUuid>>
    /\ ctid.CTID_UUID = <<CtUuid>>
    /\ ret.kind = "Err"

\* The position in the output of the i-th byte of the input: every NUL
\* before it takes two bytes more than it did.
PosAfterReplace(str, i) ==
    i + 2 * Cardinality({j \in 1..(i - 1) : str[j] = 0})

\* C36 (SpecCString): to_cstring_lossy and into_cstring_lossy always return
\* a C string, whose only NUL byte is the terminator; an input without NUL
\* bytes comes back byte for byte; in an input with NUL bytes every NUL
\* becomes the three bytes of U+FFFD and every other byte is kept, in
\* order; "hell\0 w\0rld\0" becomes "hell� w�rld�".
C36_CStringLossy ==
    (ret.op \in {"into_cstring_lossy", "to_cstring_lossy"}) =>
       LET str == ret.input
           c == ret.cstring
           body == SubSeq(c, 1, Len(c) - 1)
           nuls == Cardinality({j \in 1..Len(str) : str[j] = 0})
       IN /\ ret.kind = "CString"
          /\ Len(c) >= 1
          /\ c[Len(c)] = 0
          /\ \A k \in 1..Len(body) : body[k] # 0
          /\ (nuls = 0 => body = str)
          /\ Len(body) = Len(str) + 2 * nuls
          /\ \A i \in 1..Len(str) :
                LET p == PosAfterReplace(str, i)
                IN IF str[i] = 0
                   THEN SubSeq(body, p, p + 2) = REPLACEMENT
                   ELSE body[p] = str[i]
          /\ (str = TestMessage =>
                body = <<104, 101, 108, 108, 239, 191, 189, 32, 119,
                         239, 191, 189, 114, 108, 100, 239, 191, 189>>)

\* to_cstring_lossy has just converted the message of the test, which holds
\* three NUL bytes.
C36_Witness ==
    /\ ret.op = "to_cstring_lossy"
    /\ ret.input = TestMessage
    /\ Len(ret.cstring) = Len(TestMessage) + 7

====
